---------------------------- MODULE Spec2Model ----------------------------
(***************************************************************************)
(* A model of rosbags-rs: the bag writer (src/src/writer.rs), the two      *)
(* storage backends (src/src/storage/sqlite.rs, src/src/storage/mcap.rs)   *)
(* and the bag reader (src/src/reader.rs, src/src/metadata.rs).            *)
(*                                                                         *)
(* A bag directory is a record: whether it exists, the manifest            *)
(* (metadata.yaml) and the set of storage files.  A file name is the       *)
(* sequence of its dot-separated components, so that the extension is the  *)
(* last component.  An Option is a sequence of length 0 (None) or 1 (Some).*)
(* Timestamps are unsigned TsBits-bit integers; the relational backend     *)
(* stores them reinterpreted as signed integers of the same width.         *)
(***************************************************************************)
EXTENDS Integers, Sequences, FiniteSets, TLC

\* ------------------------------------------------------------------ bounds
\* Width of a timestamp in the model (u64 in the code).
TsBits == 3
\* Storage files of a bag that the reader is given.
MaxFiles == 2
\* Message rows over all storage files of a bag that the reader is given.
MaxStored == 2
\* Messages a writer is handed over its life.
MaxMsgs == 2
\* Connections registered on a writer.
MaxConns == 2
\* The bytes of one megabyte of buffer, scaled down as the timestamps are, so
\* that a few small payloads fill a buffer of one megabyte.
BytesPerMB == 4
\* The messages handed to a writer whose buffer limits are under test.
MaxSeries == 3

\* ------------------------------------------------------------ value sets
TsModulus == 2 ^ TsBits
MaxTs == TsModulus - 1
Timestamps == {0, 1, MaxTs}
Topics == {"/a", "/b"}
Types == {"T", "U"}
Payloads == {<<1>>, <<2, 3>>}
None == <<>>
Some(x) == <<x>>
IsSome(o) == Len(o) = 1
\* The time bounds a caller passes as a filter.
FilterBounds == {None, Some(1), Some(MaxTs)}

\* `x as i64`: the same bits read as a signed integer.
AsSigned(x) == IF x >= TsModulus \div 2 THEN x - TsModulus ELSE x
\* `x as u64`: the same bits read as an unsigned integer.
AsUnsigned(x) == x % TsModulus

\* zstd::encode_all(data, 0): a frame that starts with the zstd magic number
\* and from which data can be recovered; never the input itself.
ZstdMagic == <<40, 181, 47, 253>>
ZstdEncode(data) == ZstdMagic \o data

Min(a, b) == IF a < b THEN a ELSE b
Max(a, b) == IF a > b THEN a ELSE b
Range(s) == {s[i] : i \in 1..Len(s)}
SelectIdx(s, Test(_)) == {i \in 1..Len(s) : Test(s[i])}
\* Index of the first element of s satisfying Test, 0 when there is none
\* (Iterator::find / Iterator::position).
FirstIdx(s, Test(_)) ==
  IF SelectIdx(s, Test) = {} THEN 0
  ELSE CHOOSE i \in SelectIdx(s, Test) : \A j \in SelectIdx(s, Test) : i <= j

RECURSIVE SumSeq(_)
SumSeq(s) == IF s = <<>> THEN 0 ELSE Head(s) + SumSeq(Tail(s))

RECURSIVE Flatten(_)
Flatten(ss) == IF ss = <<>> THEN <<>> ELSE Head(ss) \o Flatten(Tail(ss))

\* A stable sort of a sequence by an integer key: slice::sort_by with a
\* total order, and SQL's ORDER BY over rows taken in rowid order.  The
\* sequence is sorted as pairs <<key, element>>.
InsertStable(sorted, p) ==
  LET n == Cardinality({i \in 1..Len(sorted) : sorted[i][1] <= p[1]})
  IN SubSeq(sorted, 1, n) \o <<p>> \o SubSeq(sorted, n + 1, Len(sorted))

RECURSIVE SortPairs(_, _)
SortPairs(ps, n) ==
  IF n = 0 THEN <<>> ELSE InsertStable(SortPairs(ps, n - 1), ps[n])

StableSortBy(s, Key(_)) ==
  LET ps == [i \in 1..Len(s) |-> <<Key(s[i]), s[i]>>]
      sorted == SortPairs(ps, Len(s))
  IN [i \in 1..Len(s) |-> sorted[i][2]]

\* ------------------------------------------------------- the bag directory
\* types.rs Connection (the fields the model follows).
Connection(id, topic, message_type, message_count, serialization_format) ==
  [id |-> id, topic |-> topic, message_type |-> message_type,
   message_count |-> message_count,
   serialization_format |-> serialization_format]

\* types.rs Message.
Message(connection, topic, timestamp, data) ==
  [connection |-> connection, topic |-> topic, timestamp |-> timestamp,
   data |-> data]

\* A storage file.  A relational file (kind "db3") holds the tables topics
\* (row id = position), message_definitions, messages (topic_id, timestamp as
\* a signed integer, data) and metadata.  A chunked-binary file (kind "mcap")
\* holds message records (topic, message_encoding, log_time, data) and is
\* complete when it ends with the footer and closing magic.  A file of kind
\* "zstd" is a zstd frame.
File(name, kind, topics, definitions, messages, metadata, records, complete) ==
  [name |-> name, kind |-> kind, topics |-> topics,
   definitions |-> definitions, messages |-> messages,
   metadata |-> metadata, records |-> records, complete |-> complete]

Extension(name) == name[Len(name)]
PathExists(dir, name) == \E f \in dir.files : f.name = name
FileAt(dir, name) == CHOOSE f \in dir.files : f.name = name
NoDir == [exists |-> FALSE, manifest |-> None, files |-> {}]

\* ------------------------------------------- metadata.rs: manifest checks
BagMetadata_validate(info) ==
  IF info.version > 9 THEN "UnsupportedVersion"
  ELSE IF /\ info.storage_identifier \notin {"sqlite3", "mcap", ""}
       THEN "UnsupportedStorageFormat"
  ELSE IF /\ info.storage_identifier = ""
          /\ ~\E i \in 1..Len(info.relative_file_paths) :
                Extension(info.relative_file_paths[i]) \in {"db3", "mcap"}
       THEN "UnsupportedStorageFormat"
  ELSE IF info.compression_format \notin {"", "zstd"}
       THEN "UnsupportedCompressionFormat"
  ELSE IF \E i \in 1..Len(info.topics_with_message_count) :
            info.topics_with_message_count[i].serialization_format # "cdr"
       THEN "UnsupportedSerializationFormat"
  ELSE "Ok"

BagMetadata_end_time(info) ==
  IF info.message_count = 0 THEN 0 ELSE info.starting_time + info.duration

\* --------------------------------------- storage/sqlite.rs: SqliteReader
\* rusqlite can prepare a statement only on a file that is a database.
IsDatabase(file) == file.kind = "db3"

SqliteReader_new(paths, connections) ==
  [kind |-> "sqlite3", paths |-> paths, topic_connections |-> connections,
   is_open |-> FALSE]

\* open: every file must be a database holding the tables messages and topics.
SqliteReader_open(sr, dir) ==
  IF sr.is_open THEN [res |-> "Ok", storage |-> sr]
  ELSE IF \E i \in 1..Len(sr.paths) : ~IsDatabase(FileAt(dir, sr.paths[i]))
       THEN [res |-> "Sqlite", storage |-> sr]
  ELSE [res |-> "Ok", storage |-> [sr EXCEPT !.is_open = TRUE]]

\* build_message_query: the WHERE clause as a predicate on a joined row.
build_message_query(file, row, connections, start, stop) ==
  /\ \/ connections = None
     \/ connections[1] = <<>>
     \/ \E i \in 1..Len(connections[1]) :
          connections[1][i].topic = file.topics[row.topic_id].name
  /\ start = None \/ row.timestamp >= AsSigned(start[1])
  /\ stop = None \/ row.timestamp < AsSigned(stop[1])

\* The body of the loop of messages() for one database file.
SqliteFileMessages(file, topic_connections, connections, start, stop) ==
  LET Known(id) == \E i \in 1..Len(topic_connections) :
                     topic_connections[i].topic = file.topics[id].name
      topic_map == [id \in {k \in 1..Len(file.topics) : Known(k)} |->
                      LET Named(c) == c.topic = file.topics[id].name
                      IN topic_connections[FirstIdx(topic_connections, Named)]]
      Selected(row) == /\ row.topic_id \in 1..Len(file.topics)
                       /\ build_message_query(file, row, connections, start, stop)
      StoredTs(row) == row.timestamp
      message_rows == StableSortBy(SelectSeq(file.messages, Selected), StoredTs)
      Mapped(row) == row.topic_id \in DOMAIN topic_map
      kept == SelectSeq(message_rows, Mapped)
  IN [i \in 1..Len(kept) |->
        Message(topic_map[kept[i].topic_id], topic_map[kept[i].topic_id].topic,
                AsUnsigned(kept[i].timestamp), kept[i].data)]

MsgTimestamp(m) == m.timestamp

SqliteReader_messages(sr, dir, connections, start, stop) ==
  IF ~sr.is_open THEN [res |-> "BagNotOpen", items |-> <<>>]
  ELSE [res |-> "Ok",
        items |-> StableSortBy(
          Flatten([i \in 1..Len(sr.paths) |->
            SqliteFileMessages(FileAt(dir, sr.paths[i]), sr.topic_connections,
                               connections, start, stop)]),
          MsgTimestamp)]

\* get_topics_from_database: one connection per topics row of every file,
\* numbered in the order found, with the number of message rows of that row.
SqliteFileTopics(file) ==
  [k \in 1..Len(file.topics) |->
     LET OfTopic(row) == row.topic_id = k
     IN [topic |-> file.topics[k].name,
         message_type |-> file.topics[k].message_type,
         serialization_format |-> file.topics[k].serialization_format,
         message_count |-> Len(SelectSeq(file.messages, OfTopic))]]

get_topics_from_database(sr, dir) ==
  LET all == Flatten([i \in 1..Len(sr.paths) |->
                        SqliteFileTopics(FileAt(dir, sr.paths[i]))])
  IN [i \in 1..Len(all) |->
        Connection(i, all[i].topic, all[i].message_type,
                   all[i].message_count, all[i].serialization_format)]

\* ----------------------------------- storage/mcap.rs: McapStorageReader
McapStorageReader_new(paths, connections) ==
  [kind |-> "mcap", paths |-> paths, topic_connections |-> connections,
   is_open |-> FALSE]

\* open maps every file into memory; it does not look at the content.
McapStorageReader_open(mr, dir) ==
  [res |-> "Ok", storage |-> [mr EXCEPT !.is_open = TRUE]]

\* mcap::MessageStream::new accepts a file that starts and ends with the
\* magic bytes, and then yields the file's message records in file order.
MessageStream_ok(file) == file.kind = "mcap" /\ file.complete

\* The body of the loop of messages() for one mapped file.
McapFileMessages(file, topic_connections, connections, start, stop) ==
  LET Passes(rec) ==
        /\ \/ connections = None
           \/ \E i \in 1..Len(connections[1]) :
                connections[1][i].topic = rec.topic
        /\ ~(start # None /\ rec.log_time < start[1])
        /\ ~(stop # None /\ rec.log_time > stop[1])
      kept == SelectSeq(file.records, Passes)
      ConnectionOf(rec) ==
        LET Named(c) == c.topic = rec.topic
            k == FirstIdx(topic_connections, Named)
        IN IF k # 0 THEN topic_connections[k]
           ELSE Connection(1, rec.topic, rec.message_encoding, 0, "cdr")
  IN [i \in 1..Len(kept) |->
        Message(ConnectionOf(kept[i]), kept[i].topic, kept[i].log_time,
                kept[i].data)]

\* A chunked-binary reader that hands out the records in file order.
McapStorageReader_messages_unsorted(mr, d, connections, start, stop) ==
  IF \E i \in 1..Len(mr.paths) : ~MessageStream_ok(FileAt(d, mr.paths[i]))
  THEN [res |-> "Generic", items |-> <<>>]
  ELSE [res |-> "Ok",
        items |-> Flatten([i \in 1..Len(mr.paths) |->
            McapFileMessages(FileAt(d, mr.paths[i]), mr.topic_connections,
                             connections, start, stop)])]

McapStorageReader_messages(mr, dir, connections, start, stop) ==
  IF \E i \in 1..Len(mr.paths) : ~MessageStream_ok(FileAt(dir, mr.paths[i]))
  THEN [res |-> "Generic", items |-> <<>>]
  ELSE [res |-> "Ok",
        items |-> StableSortBy(
          Flatten([i \in 1..Len(mr.paths) |->
            McapFileMessages(FileAt(dir, mr.paths[i]), mr.topic_connections,
                             connections, start, stop)]),
          MsgTimestamp)]

\* get_topics_from_mcap: one connection per topic seen in the records, with
\* the encoding of the first record of the topic and the number of records.
\* The topics come out of a HashMap, whose iteration order is arbitrary:
\* order is the order of this run, a sequence naming every topic once.
get_topics_from_mcap(mr, dir, order) ==
  LET records == Flatten([i \in 1..Len(mr.paths) |->
                            FileAt(dir, mr.paths[i]).records])
      Seen(topic) == \E i \in 1..Len(records) : records[i].topic = topic
      present == SelectSeq(order, Seen)
  IN [i \in 1..Len(present) |->
        LET OfTopic(rec) == rec.topic = present[i]
            recs == SelectSeq(records, OfTopic)
        IN Connection(i, present[i], recs[1].message_encoding, Len(recs), "cdr")]

get_topics_from_mcap_ok(mr, dir) ==
  \A i \in 1..Len(mr.paths) : MessageStream_ok(FileAt(dir, mr.paths[i]))

\* ------------------------------------------------ storage/mod.rs: factory
HasExtension(paths, ext) ==
  \E i \in 1..Len(paths) : Extension(paths[i]) = ext

create_storage_reader(storage_id, paths, connections) ==
  CASE storage_id = "sqlite3" ->
         [res |-> "Ok", storage |-> SqliteReader_new(paths, connections)]
    [] storage_id = "mcap" ->
         [res |-> "Ok", storage |-> McapStorageReader_new(paths, connections)]
    [] storage_id = "" /\ HasExtension(paths, "db3") ->
         [res |-> "Ok", storage |-> SqliteReader_new(paths, connections)]
    [] storage_id = "" /\ ~HasExtension(paths, "db3")
                       /\ HasExtension(paths, "mcap") ->
         [res |-> "Ok", storage |-> McapStorageReader_new(paths, connections)]
    [] OTHER ->
         [res |-> "UnsupportedStorageFormat",
          storage |-> SqliteReader_new(<<>>, <<>>)]

StorageReader_open(st, dir) ==
  IF st.kind = "sqlite3" THEN SqliteReader_open(st, dir)
  ELSE McapStorageReader_open(st, dir)

StorageReader_messages(st, dir, connections, start, stop) ==
  IF st.kind = "sqlite3"
  THEN SqliteReader_messages(st, dir, connections, start, stop)
  ELSE McapStorageReader_messages(st, dir, connections, start, stop)

\* ------------------------------------------------------ reader.rs: Reader
\* A reader that was never constructed.
NoReader == [made |-> FALSE, metadata |-> None, storage |-> None,
             connections |-> <<>>, is_open |-> FALSE]

Reader_new(dir) ==
  IF ~dir.exists THEN [res |-> "BagNotFound", reader |-> NoReader]
  ELSE IF dir.manifest = None
       THEN [res |-> "MetadataNotFound", reader |-> NoReader]
  ELSE IF BagMetadata_validate(dir.manifest[1]) # "Ok"
       THEN [res |-> BagMetadata_validate(dir.manifest[1]), reader |-> NoReader]
  ELSE [res |-> "Ok",
        reader |-> [made |-> TRUE, metadata |-> dir.manifest, storage |-> None,
                    connections |-> <<>>, is_open |-> FALSE]]

\* The merge of the manifest's connections with the chunked-binary file's:
\* a topic the list holds takes the measured count, any other is appended.
RECURSIVE MergeMcapConnections(_, _, _)
MergeMcapConnections(connections, mcap_connections, n) ==
  IF n = 0 THEN connections
  ELSE LET merged == MergeMcapConnections(connections, mcap_connections, n - 1)
           mcap_conn == mcap_connections[n]
           Named(c) == c.topic = mcap_conn.topic
           k == FirstIdx(merged, Named)
       IN IF k # 0
          THEN [merged EXCEPT ![k].message_count = mcap_conn.message_count]
          ELSE Append(merged, mcap_conn)

Reader_open(r, dir, order) ==
  IF r.is_open THEN [res |-> "Ok", reader |-> r]
  ELSE
    LET info == r.metadata[1]
        topics == info.topics_with_message_count
        connections == [i \in 1..Len(topics) |->
                          Connection(i, topics[i].name, topics[i].message_type,
                                     topics[i].message_count,
                                     topics[i].serialization_format)]
        r1 == [r EXCEPT !.connections = connections]
        paths == info.relative_file_paths
        made == create_storage_reader(info.storage_identifier, paths, connections)
        opened == StorageReader_open(made.storage, dir)
        storage == opened.storage
        db_connections == get_topics_from_database(storage, dir)
        mcap_connections == get_topics_from_mcap(storage, dir, order)
        final ==
          IF storage.kind = "sqlite3"
          THEN IF db_connections # <<>> THEN db_connections ELSE connections
          ELSE IF get_topics_from_mcap_ok(storage, dir) /\ mcap_connections # <<>>
               THEN MergeMcapConnections(connections, mcap_connections,
                                         Len(mcap_connections))
               ELSE connections
    IN IF \E i \in 1..Len(paths) : ~PathExists(dir, paths[i])
       THEN [res |-> "StorageFileNotFound", reader |-> r1]
       ELSE IF made.res # "Ok" THEN [res |-> made.res, reader |-> r1]
       ELSE IF opened.res # "Ok" THEN [res |-> opened.res, reader |-> r1]
       ELSE [res |-> "Ok",
             reader |-> [r1 EXCEPT !.connections = final,
                                   !.storage = Some(storage),
                                   !.is_open = TRUE]]

Reader_close(r) ==
  IF ~r.is_open THEN [res |-> "Ok", reader |-> r]
  ELSE [res |-> "Ok", reader |-> [r EXCEPT !.storage = None, !.is_open = FALSE]]

Reader_message_count(r) ==
  IF r.metadata = None THEN 0 ELSE r.metadata[1].message_count
Reader_duration(r) ==
  IF r.metadata = None THEN 0 ELSE r.metadata[1].duration
Reader_start_time(r) ==
  IF r.metadata = None THEN 0 ELSE r.metadata[1].starting_time
Reader_end_time(r) ==
  IF r.metadata = None THEN 0 ELSE BagMetadata_end_time(r.metadata[1])

\* A reader that yields nothing, and no error, when it is not open.
Reader_messages_filtered_lenient(r, dir, connections, start, stop) ==
  IF ~r.is_open THEN [res |-> "Ok", items |-> <<>>]
  ELSE StorageReader_messages(r.storage[1], dir, connections, start, stop)

Reader_messages_filtered(r, dir, connections, start, stop) ==
  IF ~r.is_open THEN [res |-> "BagNotOpen", items |-> <<>>]
  ELSE StorageReader_messages(r.storage[1], dir, connections, start, stop)

Reader_messages(r, dir) == Reader_messages_filtered(r, dir, None, None, None)

\* ------------------------------------------------ cdr.rs: CdrDeserializer
\* A buffer is a sequence of bytes; the byte at offset k of the source is
\* element k + 1.  The error ReaderError::generic(..) is the result "Generic".
\* Values are sequences: a number is <<n>>, a boolean <<0>> or <<1>>, a
\* floating-point number its bytes from the most significant one, a string
\* its bytes.
CdrHeader_parse(header_bytes) ==
  IF Len(header_bytes) # 4 THEN [res |-> "Generic"]
  ELSE IF header_bytes[2] = 0
       THEN [res |-> "Ok", endianness |-> "BigEndian",
             encapsulation_kind |-> header_bytes[3]]
  ELSE IF header_bytes[2] = 1
       THEN [res |-> "Ok", endianness |-> "LittleEndian",
             encapsulation_kind |-> header_bytes[3]]
  ELSE [res |-> "Generic"]

CdrDeserializer_new(data) ==
  IF Len(data) < 4 THEN [res |-> "Generic"]
  ELSE LET header == CdrHeader_parse(SubSeq(data, 1, 4))
       IN IF header.res # "Ok" THEN [res |-> header.res]
          ELSE [res |-> "Ok",
                de |-> [data |-> data, pos |-> 4,
                        endianness |-> header.endianness]]

\* An alignment counted from the first byte after the header.
align_from_payload(pos, alignment) ==
  4 + ((pos - 4 + alignment - 1) \div alignment) * alignment

\* align: (pos + alignment - 1) & !(alignment - 1), for an alignment that is
\* a power of two.
align(pos, alignment) == ((pos + alignment - 1) \div alignment) * alignment

\* from_le_bytes and from_be_bytes read the same number once the bytes are
\* put most significant first.
MsbFirst(bytes, endianness) ==
  IF endianness = "LittleEndian"
  THEN [i \in 1..Len(bytes) |-> bytes[Len(bytes) + 1 - i]]
  ELSE bytes
RECURSIVE Unsigned(_)
Unsigned(msb) ==
  IF msb = <<>> THEN 0
  ELSE Unsigned(SubSeq(msb, 1, Len(msb) - 1)) * 256 + msb[Len(msb)]

\* impl FromBytes for T.  An unsigned 32-bit value is exact below 2^31.
from_bytes(T, bytes, endianness) ==
  LET msb == MsbFirst(bytes, endianness)
      Width == CASE T \in {"i8", "u8"} -> 1
                 [] T = "u16" -> 2
                 [] T \in {"i32", "u32", "f32"} -> 4
                 [] T = "f64" -> 8
  IN IF Len(bytes) # Width THEN [res |-> "Generic", value |-> <<>>]
     ELSE [res |-> "Ok",
           value |->
             CASE T = "i8" ->
                    <<IF bytes[1] >= 128 THEN bytes[1] - 256 ELSE bytes[1]>>
               [] T \in {"u8", "u16", "u32"} -> <<Unsigned(msb)>>
               [] T = "i32" ->
                    <<(IF msb[1] >= 128 THEN msb[1] - 256 ELSE msb[1])
                        * 16777216 + Unsigned(Tail(msb))>>
               [] T \in {"f32", "f64"} -> msb]

read_primitive(de, T, size) ==
  LET pos == align(de.pos, size)
  IN IF pos + size > Len(de.data)
     THEN [res |-> "Generic", de |-> [de EXCEPT !.pos = pos], value |-> <<>>]
     ELSE LET v == from_bytes(T, SubSeq(de.data, pos + 1, pos + size),
                              de.endianness)
          IN [res |-> v.res, de |-> [de EXCEPT !.pos = pos + size],
              value |-> v.value]

read_i8(de) == read_primitive(de, "i8", 1)
read_u8(de) == read_primitive(de, "u8", 1)
read_u16(de) == read_primitive(de, "u16", 2)
read_i32(de) == read_primitive(de, "i32", 4)
read_u32(de) == read_primitive(de, "u32", 4)
\* read_f64 and read_f32 write out the steps of read_primitive.
read_f64(de) == read_primitive(de, "f64", 8)
read_f32(de) == read_primitive(de, "f32", 4)

read_bool(de) ==
  LET byte == read_u8(de)
  IN IF byte.res # "Ok" THEN byte
     ELSE [byte EXCEPT !.value = <<IF byte.value[1] # 0 THEN 1 ELSE 0>>]

\* String::from_utf8 accepts the well-formed byte sequences of UTF-8.
RECURSIVE IsUtf8(_)
IsUtf8(bytes) ==
  LET n == Len(bytes)
      Cont(k) == k <= n /\ bytes[k] \in 128..191
      Rest(k) == IsUtf8(SubSeq(bytes, k, n))
  IN IF n = 0 THEN TRUE
     ELSE LET b == bytes[1]
          IN CASE b <= 127 -> Rest(2)
               [] b \in 194..223 -> Cont(2) /\ Rest(3)
               [] b = 224 -> n >= 2 /\ bytes[2] \in 160..191 /\ Cont(3) /\ Rest(4)
               [] b \in (225..236) \cup {238, 239} ->
                    Cont(2) /\ Cont(3) /\ Rest(4)
               [] b = 237 -> n >= 2 /\ bytes[2] \in 128..159 /\ Cont(3) /\ Rest(4)
               [] b = 240 -> n >= 2 /\ bytes[2] \in 144..191 /\ Cont(3)
                             /\ Cont(4) /\ Rest(5)
               [] b \in 241..243 -> Cont(2) /\ Cont(3) /\ Cont(4) /\ Rest(5)
               [] b = 244 -> n >= 2 /\ bytes[2] \in 128..143 /\ Cont(3)
                             /\ Cont(4) /\ Rest(5)
               [] OTHER -> FALSE

\* A read_string that returns the bytes as they are, well-formed or not.
read_string_lossy(de) ==
  LET l == read_u32(de)
  IN IF l.res # "Ok" THEN l
     ELSE LET length == l.value[1]
              pos == l.de.pos
          IN IF length = 0 THEN [l EXCEPT !.value = <<>>]
             ELSE IF pos + length > Len(de.data)
                  THEN [res |-> "Generic", de |-> l.de, value |-> <<>>]
             ELSE [res |-> "Ok", de |-> [l.de EXCEPT !.pos = pos + length],
                   value |-> SubSeq(de.data, pos + 1, pos + length)]

read_string(de) ==
  LET l == read_u32(de)
  IN IF l.res # "Ok" THEN l
     ELSE LET length == l.value[1]
              pos == l.de.pos
          IN IF length = 0 THEN [l EXCEPT !.value = <<>>]
             ELSE IF pos + length > Len(de.data)
                  THEN [res |-> "Generic", de |-> l.de, value |-> <<>>]
             ELSE LET string_bytes ==
                        IF de.data[pos + length] = 0
                        THEN SubSeq(de.data, pos + 1, pos + length - 1)
                        ELSE SubSeq(de.data, pos + 1, pos + length)
                      moved == [l.de EXCEPT !.pos = pos + length]
                  IN IF IsUtf8(string_bytes)
                     THEN [res |-> "Ok", de |-> moved, value |-> string_bytes]
                     ELSE [res |-> "Generic", de |-> moved, value |-> <<>>]

read_byte_sequence(de) ==
  LET l == read_u32(de)
  IN IF l.res # "Ok" THEN l
     ELSE LET length == l.value[1]
              pos == l.de.pos
          IN IF pos + length > Len(de.data)
             THEN [res |-> "Generic", de |-> l.de, value |-> <<>>]
             ELSE [res |-> "Ok", de |-> [l.de EXCEPT !.pos = pos + length],
                   value |-> SubSeq(de.data, pos + 1, pos + length)]

\* ------------------------------------------------------------------ state
VARIABLES
  writer,   \* the Writer (writer.rs), its storage backend inside
  dir,      \* the bag directory on disk
  reader,   \* the Reader (reader.rs), its storage backend inside
  ret,      \* the last call and what it returned
  written,  \* the messages that a write call accepted, in call order
  yielded,  \* the arguments and the items of the last messages call, until
            \* the reader is opened or closed again
  twin,     \* a second writer, its directory and the result of its last
            \* call: it is given every call the writer is given
  cdr       \* a buffer and the CdrDeserializer (cdr.rs) made on it: its
            \* fields, its last call, the cursor before the call, the
            \* result and the value returned

vars == <<writer, dir, reader, ret, written, yielded, twin, cdr>>

\* A buffer on which no deserializer was made yet.
NoCdr(data) ==
  [made |-> FALSE, data |-> data, pos |-> 0, endianness |-> "LittleEndian",
   op |-> "none", before |-> 0, res |-> "Ok", value |-> <<>>]

NothingYielded ==
  [connections |-> None, start |-> None, stop |-> None, res |-> "none",
   items |-> <<>>]

\* ------------------------------------------------- bags given to a reader
FileStems == <<"bag_0", "bag_1", "bag_2", "bag_3">>
TopicRow(name, message_type) ==
  [name |-> name, message_type |-> message_type,
   serialization_format |-> "cdr"]
TopicTables == {<<TopicRow("/a", "T"), TopicRow("/b", "U")>>,
                <<TopicRow("/b", "U")>>}
TopicOfId == <<"/a", "/b">>
StoredRows(n) ==
  [file : 1..n, topic_id : 1..2, timestamp : Timestamps, data : {<<1>>}]
StoredSeqs(n) ==
  UNION {[1..k -> StoredRows(n)] : k \in 0..MaxStored}

ManifestTopic(name, message_type, count) ==
  [name |-> name, message_type |-> message_type,
   serialization_format |-> "cdr", message_count |-> count]
ManifestTopicLists ==
  {<<>>, <<ManifestTopic("/a", "T", 1)>>,
   <<ManifestTopic("/a", "T", 1), ManifestTopic("/b", "U", 1)>>}

\* The directory of a bag of n files of one backend: file i holds the rows
\* of stored that name it, in the order of stored.
GivenBag(sid, n, table, stored, topics) ==
  LET ext == IF sid = "sqlite3" THEN "db3" ELSE "mcap"
      RowsOf(i) == LET In(row) == row.file = i IN SelectSeq(stored, In)
      DbRows(i) == [k \in 1..Len(RowsOf(i)) |->
                      [topic_id |-> RowsOf(i)[k].topic_id,
                       timestamp |-> AsSigned(RowsOf(i)[k].timestamp),
                       data |-> RowsOf(i)[k].data]]
      Records(i) == [k \in 1..Len(RowsOf(i)) |->
                       [topic |-> TopicOfId[RowsOf(i)[k].topic_id],
                        message_encoding |-> "cdr",
                        log_time |-> RowsOf(i)[k].timestamp,
                        data |-> RowsOf(i)[k].data]]
      FileOf(i) ==
        IF sid = "sqlite3"
        THEN File(<<FileStems[i], ext>>, "db3", table, <<>>, DbRows(i), <<>>,
                  <<>>, FALSE)
        ELSE File(<<FileStems[i], ext>>, "mcap", <<>>, <<>>, <<>>, <<>>,
                  Records(i), TRUE)
      counts == [i \in 1..Len(topics) |-> topics[i].message_count]
  IN [exists |-> TRUE,
      manifest |-> Some([version |-> 9,
                         storage_identifier |-> sid,
                         relative_file_paths |->
                           [i \in 1..n |-> <<FileStems[i], ext>>],
                         duration |-> 0,
                         starting_time |-> 0,
                         message_count |-> SumSeq(counts),
                         compression_format |-> "",
                         compression_mode |-> "",
                         topics_with_message_count |-> topics]),
      files |-> {FileOf(i) : i \in 1..n}]

\* ----------------------------------------------------------- finite maps
\* A HashMap is a function whose domain is the set of its keys.
EmptyMap == <<>>
MapPut(m, k, v) == [x \in DOMAIN m \cup {k} |-> IF x = k THEN v ELSE m[x]]
MapValuesSum(m) ==
  LET RECURSIVE SumOver(_)
      SumOver(keys) ==
        IF keys = {} THEN 0
        ELSE LET k == CHOOSE x \in keys : TRUE
             IN m[k] + SumOver(keys \ {k})
  IN SumOver(DOMAIN m)

\* ---------------------------------------- storage/sqlite.rs: SqliteWriter
StorageFileName(storage_plugin) ==
  IF storage_plugin = "sqlite3" THEN <<"bag", "db3">> ELSE <<"bag", "mcap">>

SqliteWriter_new(compression_mode) ==
  IF compression_mode = "storage"
  THEN [res |-> "Writer", storage |-> None]
  ELSE [res |-> "Ok",
        storage |-> Some([kind |-> "sqlite3",
                          db_path |-> StorageFileName("sqlite3"),
                          connection |-> None,
                          is_open |-> FALSE,
                          topic_id_map |-> EmptyMap])]

ReplaceFile(d, file) ==
  [d EXCEPT !.files = {f \in @ : f.name # file.name} \cup {file}]
RemoveFile(d, name) == [d EXCEPT !.files = {f \in @ : f.name # name}]

\* open: SqliteConnection::open creates the database file when there is
\* none; create_schema fails on a database that holds the tables already.
SqliteWriter_open(sw, d) ==
  IF sw.is_open THEN [res |-> "BagAlreadyOpen", storage |-> sw, dir |-> d]
  ELSE IF PathExists(d, sw.db_path)
       THEN [res |-> "Sqlite",
             storage |-> [sw EXCEPT !.connection = Some(sw.db_path)],
             dir |-> d]
  ELSE [res |-> "Ok",
        storage |-> [sw EXCEPT !.connection = Some(sw.db_path),
                               !.is_open = TRUE],
        dir |-> ReplaceFile(d, File(sw.db_path, "db3", <<>>, <<>>, <<>>, <<>>,
                                    <<>>, FALSE))]

\* close(version, metadata): one row into the metadata table, when the
\* writer still holds its database connection.
SqliteWriter_close(sw, d, version, io_fails) ==
  IF ~sw.is_open THEN [res |-> "Ok", storage |-> sw, dir |-> d]
  ELSE IF sw.connection # None /\ io_fails
       THEN [res |-> "Sqlite", storage |-> sw, dir |-> d]
  ELSE [res |-> "Ok",
        storage |-> [sw EXCEPT !.connection = None, !.is_open = FALSE,
                               !.topic_id_map = EmptyMap],
        dir |-> IF sw.connection = None THEN d
                ELSE ReplaceFile(d, [FileAt(d, sw.db_path) EXCEPT
                                       !.metadata = Append(@, version)])]

SqliteWriter_add_msgtype(sw, d, connection) ==
  IF ~sw.is_open THEN [res |-> "BagNotOpen", storage |-> sw, dir |-> d]
  ELSE IF sw.connection = None THEN [res |-> "panic", storage |-> sw, dir |-> d]
  ELSE [res |-> "Ok", storage |-> sw,
        dir |-> ReplaceFile(d, [FileAt(d, sw.db_path) EXCEPT
                  !.definitions = Append(@, connection.message_type)])]

\* add_connection: one row into topics; last_insert_rowid is the row's place.
SqliteWriter_add_connection(sw, d, connection) ==
  IF ~sw.is_open THEN [res |-> "BagNotOpen", storage |-> sw, dir |-> d]
  ELSE IF sw.connection = None THEN [res |-> "panic", storage |-> sw, dir |-> d]
  ELSE LET file == FileAt(d, sw.db_path)
           topic_id == Len(file.topics) + 1
       IN [res |-> "Ok",
           storage |-> [sw EXCEPT !.topic_id_map =
                          MapPut(@, connection.topic, topic_id)],
           dir |-> ReplaceFile(d, [file EXCEPT !.topics =
                     Append(@, [name |-> connection.topic,
                                message_type |-> connection.message_type,
                                serialization_format |->
                                  connection.serialization_format])])]

\* A write_batch without a transaction: the rows before the message whose
\* topic has no row stay inserted.
SqliteWriter_write_batch_autocommit(sw, d, messages) ==
  IF ~sw.is_open THEN [res |-> "BagNotOpen", storage |-> sw, dir |-> d]
  ELSE IF messages = <<>> THEN [res |-> "Ok", storage |-> sw, dir |-> d]
  ELSE IF sw.connection = None THEN [res |-> "panic", storage |-> sw, dir |-> d]
  ELSE LET Known(i) == messages[i].connection.topic \in DOMAIN sw.topic_id_map
           bad == {i \in 1..Len(messages) : ~Known(i)}
           n == IF bad = {} THEN Len(messages)
                ELSE (CHOOSE i \in bad : \A j \in bad : i <= j) - 1
       IN [res |-> IF bad = {} THEN "Ok" ELSE "ConnectionNotFound",
           storage |-> IF bad = {} THEN sw ELSE [sw EXCEPT !.connection = None],
           dir |-> ReplaceFile(d, [FileAt(d, sw.db_path) EXCEPT !.messages =
                     @ \o [i \in 1..n |->
                             [topic_id |->
                                sw.topic_id_map[messages[i].connection.topic],
                              timestamp |-> AsSigned(messages[i].timestamp),
                              data |-> messages[i].data]]])]

\* write_batch: the connection is taken out of the writer, the rows are
\* inserted in one transaction, and the connection is put back after the
\* commit.  A message whose topic has no row ends the call before the commit:
\* the transaction is rolled back and the connection is dropped.
SqliteWriter_write_batch(sw, d, messages) ==
  IF ~sw.is_open THEN [res |-> "BagNotOpen", storage |-> sw, dir |-> d]
  ELSE IF messages = <<>> THEN [res |-> "Ok", storage |-> sw, dir |-> d]
  ELSE IF sw.connection = None THEN [res |-> "panic", storage |-> sw, dir |-> d]
  ELSE IF \E i \in 1..Len(messages) :
            messages[i].connection.topic \notin DOMAIN sw.topic_id_map
       THEN [res |-> "ConnectionNotFound",
             storage |-> [sw EXCEPT !.connection = None], dir |-> d]
  ELSE [res |-> "Ok", storage |-> sw,
        dir |-> ReplaceFile(d, [FileAt(d, sw.db_path) EXCEPT !.messages =
                  @ \o [i \in 1..Len(messages) |->
                          [topic_id |->
                             sw.topic_id_map[messages[i].connection.topic],
                           timestamp |-> AsSigned(messages[i].timestamp),
                           data |-> messages[i].data]]])]

\* -------------------------------------------- storage/mcap.rs: McapWriter
McapWriter_new(compression_mode) ==
  [res |-> "Ok",
   storage |-> Some([kind |-> "mcap",
                     mcap_path |-> StorageFileName("mcap"),
                     writer |-> None,
                     is_open |-> FALSE,
                     schemas |-> <<>>,
                     channels |-> <<>>,
                     next_schema_id |-> 1,
                     next_channel_id |-> 1,
                     channel_id_map |-> EmptyMap])]

\* open: File::create makes the file empty; write_header writes the magic
\* bytes and nothing else.
McapWriter_open(mw, d) ==
  IF mw.is_open THEN [res |-> "BagAlreadyOpen", storage |-> mw, dir |-> d]
  ELSE [res |-> "Ok",
        storage |-> [mw EXCEPT !.writer = Some(mw.mcap_path),
                               !.is_open = TRUE],
        dir |-> ReplaceFile(d, File(mw.mcap_path, "mcap", <<>>, <<>>, <<>>,
                                    <<>>, <<>>, FALSE))]

\* close: flushes the file; no footer is written.
McapWriter_close(mw, d, version, io_fails) ==
  IF ~mw.is_open THEN [res |-> "Ok", storage |-> mw, dir |-> d]
  ELSE IF mw.writer # None /\ io_fails
       THEN [res |-> "Io", storage |-> mw, dir |-> d]
  ELSE [res |-> "Ok",
        storage |-> [mw EXCEPT !.writer = None, !.is_open = FALSE,
                               !.schemas = <<>>, !.channels = <<>>,
                               !.channel_id_map = EmptyMap,
                               !.next_schema_id = 1, !.next_channel_id = 1],
        dir |-> d]

McapWriter_add_msgtype(mw, d, connection) ==
  IF ~mw.is_open THEN [res |-> "BagNotOpen", storage |-> mw, dir |-> d]
  ELSE [res |-> "Ok",
        storage |-> [mw EXCEPT
                       !.schemas = Append(@, [id |-> mw.next_schema_id,
                                              name |-> connection.message_type]),
                       !.next_schema_id = @ + 1],
        dir |-> d]

McapWriter_add_connection(mw, d, connection) ==
  IF ~mw.is_open THEN [res |-> "BagNotOpen", storage |-> mw, dir |-> d]
  ELSE LET Typed(s) == s.name = connection.message_type
           k == FirstIdx(mw.schemas, Typed)
           schema_id == IF k = 0 THEN 0 ELSE mw.schemas[k].id
       IN [res |-> "Ok",
           storage |-> [mw EXCEPT
                          !.channel_id_map =
                            MapPut(@, connection.topic, mw.next_channel_id),
                          !.channels =
                            Append(@, [id |-> mw.next_channel_id,
                                       schema_id |-> schema_id,
                                       topic |-> connection.topic,
                                       message_encoding |->
                                         connection.message_type]),
                          !.next_channel_id = @ + 1],
           dir |-> d]

\* write: looks the channel up and checks the file handle; no record is
\* written to the file.
McapWriter_write(mw, connection) ==
  IF ~mw.is_open THEN "BagNotOpen"
  ELSE IF connection.topic \notin DOMAIN mw.channel_id_map
       THEN "ConnectionNotFound"
  ELSE IF mw.writer = None THEN "BagNotOpen"
  ELSE "Ok"

\* storage/mod.rs: the default write_batch, one write per message, stopping
\* at the first error.
McapWriter_write_batch(mw, d, messages) ==
  LET Fails(m) == McapWriter_write(mw, m.connection) # "Ok"
      k == FirstIdx(messages, Fails)
  IN [res |-> IF k = 0 THEN "Ok" ELSE McapWriter_write(mw, messages[k].connection),
      storage |-> mw, dir |-> d]

\* ------------------------------------- the StorageWriter trait, dispatched
create_storage_writer(storage_plugin, compression_mode) ==
  IF storage_plugin = "sqlite3" THEN SqliteWriter_new(compression_mode)
  ELSE McapWriter_new(compression_mode)

StorageWriter_open(st, d) ==
  IF st.kind = "sqlite3" THEN SqliteWriter_open(st, d) ELSE McapWriter_open(st, d)
StorageWriter_close(st, d, version, io_fails) ==
  IF st.kind = "sqlite3" THEN SqliteWriter_close(st, d, version, io_fails)
  ELSE McapWriter_close(st, d, version, io_fails)
StorageWriter_add_msgtype(st, d, connection) ==
  IF st.kind = "sqlite3" THEN SqliteWriter_add_msgtype(st, d, connection)
  ELSE McapWriter_add_msgtype(st, d, connection)
StorageWriter_add_connection(st, d, connection) ==
  IF st.kind = "sqlite3" THEN SqliteWriter_add_connection(st, d, connection)
  ELSE McapWriter_add_connection(st, d, connection)
StorageWriter_write_batch(st, d, messages) ==
  IF st.kind = "sqlite3" THEN SqliteWriter_write_batch(st, d, messages)
  ELSE McapWriter_write_batch(st, d, messages)

\* -------------------------------------------------------- writer.rs: new
\* Writer::new(bag_path, version, storage_plugin) on a path that does not
\* exist yet.
Writer_new(version, storage_plugin) ==
  [made |-> TRUE,
   version |-> version,
   storage_plugin |-> storage_plugin,
   compression_mode |-> "none",
   compression_format |-> "none",
   storage |-> None,
   connections |-> <<>>,
   message_counts |-> <<>>,
   added_types |-> {},
   min_timestamp |-> MaxTs,
   max_timestamp |-> 0,
   is_open |-> FALSE,
   message_buffer |-> <<>>,
   buffer_size_limit |-> 10 * BytesPerMB,
   current_buffer_size |-> 0,
   batch_threshold |-> 100]

\* A writer that was never constructed.
NoWriter == [Writer_new(9, "sqlite3") EXCEPT !.made = FALSE]
NoTwin == [writer |-> NoWriter, dir |-> NoDir, res |-> "Ok"]

\* ----------------------------------------------- writer.rs: the operations
\* Every operation maps the writer w and the directory d to a result, the
\* writer and the directory after the call.  The result "panic" stands for
\* an unwrap of an absent value: the thread unwinds out of the call.
Outcome(res, w, d) == [res |-> res, writer |-> w, dir |-> d]

CompressionMode_as_str(mode) == IF mode = "none" THEN "" ELSE mode
CompressionFormat_as_str(format) == IF format = "none" THEN "" ELSE format

Writer_set_compression(w, d, mode, format) ==
  IF w.is_open THEN Outcome("BagAlreadyOpen", w, d)
  ELSE Outcome("Ok", [w EXCEPT !.compression_mode = mode,
                               !.compression_format = format], d)

\* A configure_buffer that does not look at is_open.
Writer_configure_buffer_anytime(w, d, buffer_size_mb, batch_threshold) ==
  Outcome("Ok", [w EXCEPT !.buffer_size_limit = buffer_size_mb * BytesPerMB,
                          !.batch_threshold = batch_threshold], d)

Writer_configure_buffer(w, d, buffer_size_mb, batch_threshold) ==
  IF w.is_open THEN Outcome("BagAlreadyOpen", w, d)
  ELSE Outcome("Ok", [w EXCEPT !.buffer_size_limit =
                                 buffer_size_mb * BytesPerMB,
                               !.batch_threshold = batch_threshold], d)

\* A flush test that looks at the number of messages only.
should_flush_buffer_count_only(w) ==
  Len(w.message_buffer) >= w.batch_threshold

should_flush_buffer(w) ==
  \/ Len(w.message_buffer) >= w.batch_threshold
  \/ w.current_buffer_size >= w.buffer_size_limit

BufferedMessage(connection, timestamp, data) ==
  [connection |-> connection, timestamp |-> timestamp, data |-> data]

\* A flush that empties the buffer without handing it to the storage.
Writer_flush_buffer_dropping(w, d) ==
  Outcome("Ok", [w EXCEPT !.message_buffer = <<>>, !.current_buffer_size = 0],
          d)

Writer_flush_buffer(w, d) ==
  IF w.message_buffer = <<>> THEN Outcome("Ok", w, d)
  ELSE IF w.storage = None THEN Outcome("panic", w, d)
  ELSE LET o == StorageWriter_write_batch(w.storage[1], d, w.message_buffer)
           w1 == [w EXCEPT !.storage = Some(o.storage)]
       IN IF o.res # "Ok" THEN Outcome(o.res, w1, o.dir)
          ELSE Outcome("Ok", [w1 EXCEPT !.message_buffer = <<>>,
                                        !.current_buffer_size = 0], o.dir)

Writer_open(w, d) ==
  IF w.is_open THEN Outcome("Ok", w, d)
  ELSE LET d1 == [d EXCEPT !.exists = TRUE]
           made == create_storage_writer(w.storage_plugin, w.compression_mode)
       IN IF made.res # "Ok" THEN Outcome(made.res, w, d1)
          ELSE LET o == StorageWriter_open(made.storage[1], d1)
               IN IF o.res # "Ok" THEN Outcome(o.res, w, o.dir)
                  ELSE Outcome("Ok", [w EXCEPT !.storage = Some(o.storage),
                                               !.is_open = TRUE], o.dir)

\* A duplicate test that finds nothing.
ConnectionExists_never(w, topic, message_type) == FALSE

\* The duplicate test of add_connection.
ConnectionExists(w, topic, message_type) ==
  \E i \in 1..Len(w.connections) :
    /\ w.connections[i].topic = topic
    /\ w.connections[i].message_type = message_type

\* An id counted from 0.
connection_id_from_zero(w) == Len(w.connections)

\* The id that add_connection gives to the connection it makes.
connection_id(w) == Len(w.connections) + 1

\* serialization_format is the Option the caller passes: "cdr" when None.
Writer_add_connection(w, d, topic, message_type, serialization_format) ==
  IF ~w.is_open THEN Outcome("BagNotOpen", w, d)
  ELSE
  LET connection == Connection(connection_id(w), topic, message_type, 0,
                               IF serialization_format = None THEN "cdr"
                               ELSE serialization_format[1])
  IN IF ConnectionExists(w, topic, message_type)
     THEN Outcome("ConnectionAlreadyExists", w, d)
     ELSE IF w.storage = None THEN Outcome("panic", w, d)
     ELSE
     LET fresh == message_type \notin w.added_types
         t == IF fresh
              THEN StorageWriter_add_msgtype(w.storage[1], d, connection)
              ELSE [res |-> "Ok", storage |-> w.storage[1], dir |-> d]
     IN IF t.res # "Ok"
        THEN Outcome(t.res, [w EXCEPT !.storage = Some(t.storage)], t.dir)
        ELSE
        LET w1 == [w EXCEPT !.added_types = @ \cup {message_type}]
            c == StorageWriter_add_connection(t.storage, t.dir, connection)
        IN IF c.res # "Ok"
           THEN Outcome(c.res, [w1 EXCEPT !.storage = Some(c.storage)], c.dir)
           ELSE Outcome("Ok",
                        [w1 EXCEPT !.storage = Some(c.storage),
                                   !.message_counts =
                                     MapPut(@, connection.id, 0),
                                   !.connections = Append(@, connection)],
                        c.dir)

CountUp(message_counts, id) ==
  MapPut(message_counts, id,
         IF id \in DOMAIN message_counts THEN message_counts[id] + 1 ELSE 1)

\* The buffering, counting and flushing shared by write and write_raw_message.
BufferAndCount(w, d, connection, timestamp, final_data) ==
  LET w1 == [w EXCEPT
               !.current_buffer_size = @ + Len(final_data),
               !.message_buffer =
                 Append(@, BufferedMessage(connection, timestamp, final_data)),
               !.message_counts = CountUp(@, connection.id),
               !.min_timestamp = Min(@, timestamp),
               !.max_timestamp = Max(@, timestamp)]
  IN IF should_flush_buffer(w1) THEN Writer_flush_buffer(w1, d)
     ELSE Outcome("Ok", w1, d)

Writer_write(w, d, connection, timestamp, data) ==
  IF ~w.is_open THEN Outcome("BagNotOpen", w, d)
  ELSE IF ~\E i \in 1..Len(w.connections) : w.connections[i].id = connection.id
       THEN Outcome("ConnectionNotFound", w, d)
  ELSE LET final_data ==
             IF w.compression_mode = "message" /\ w.compression_format = "zstd"
             THEN ZstdEncode(data) ELSE data
       IN BufferAndCount(w, d, connection, timestamp, final_data)

\* A raw write that does not look at is_open.
Writer_write_raw_message_unchecked(w, d, connection, timestamp, raw_data) ==
  BufferAndCount(w, d, connection, timestamp, raw_data)

Writer_write_raw_message(w, d, connection, timestamp, raw_data) ==
  IF ~w.is_open THEN Outcome("BagNotOpen", w, d)
  ELSE BufferAndCount(w, d, connection, timestamp, raw_data)

RECURSIVE CountAll(_, _)
CountAll(message_counts, messages) ==
  IF messages = <<>> THEN message_counts
  ELSE CountAll(CountUp(message_counts, Head(messages).connection.id),
                Tail(messages))

\* A batch write that leaves the buffered messages in the buffer.
Writer_write_raw_messages_batch_unflushed(w, d, messages) ==
  IF ~w.is_open THEN Outcome("BagNotOpen", w, d)
  ELSE IF messages = <<>> THEN Outcome("Ok", w, d)
  ELSE
  LET f == Outcome("Ok", w, d)
  IN IF f.res # "Ok" THEN f
     ELSE
     LET stamps == {messages[i].timestamp : i \in 1..Len(messages)}
         w1 == [f.writer EXCEPT
                  !.min_timestamp = Min(@, CHOOSE x \in stamps :
                                             \A y \in stamps : x <= y),
                  !.max_timestamp = Max(@, CHOOSE x \in stamps :
                                             \A y \in stamps : x >= y),
                  !.message_counts = CountAll(@, messages)]
     IN IF w1.storage = None THEN Outcome("Ok", w1, f.dir)
        ELSE LET o == StorageWriter_write_batch(w1.storage[1], f.dir, messages)
             IN Outcome(o.res, [w1 EXCEPT !.storage = Some(o.storage)], o.dir)

Writer_write_raw_messages_batch(w, d, messages) ==
  IF ~w.is_open THEN Outcome("BagNotOpen", w, d)
  ELSE IF messages = <<>> THEN Outcome("Ok", w, d)
  ELSE
  LET f == Writer_flush_buffer(w, d)
  IN IF f.res # "Ok" THEN f
     ELSE
     LET stamps == {messages[i].timestamp : i \in 1..Len(messages)}
         w1 == [f.writer EXCEPT
                  !.min_timestamp = Min(@, CHOOSE x \in stamps :
                                             \A y \in stamps : x <= y),
                  !.max_timestamp = Max(@, CHOOSE x \in stamps :
                                             \A y \in stamps : x >= y),
                  !.message_counts = CountAll(@, messages)]
     IN IF w1.storage = None THEN Outcome("Ok", w1, f.dir)
        ELSE LET o == StorageWriter_write_batch(w1.storage[1], f.dir, messages)
             IN Outcome(o.res, [w1 EXCEPT !.storage = Some(o.storage)], o.dir)

\* generate_metadata: the manifest of the bag as the writer's counters have it.
Writer_generate_metadata(w) ==
  LET storage_file_name == StorageFileName(w.storage_plugin)
      final_file_name ==
        IF w.compression_mode = "file"
        THEN Append(storage_file_name,
                    CompressionFormat_as_str(w.compression_format))
        ELSE storage_file_name
  IN [version |-> w.version,
      storage_identifier |-> w.storage_plugin,
      relative_file_paths |-> <<final_file_name>>,
      duration |-> IF w.max_timestamp >= w.min_timestamp
                   THEN w.max_timestamp - w.min_timestamp ELSE 0,
      starting_time |-> w.min_timestamp,
      message_count |-> MapValuesSum(w.message_counts),
      compression_format |->
        IF w.compression_mode = "none" THEN ""
        ELSE CompressionFormat_as_str(w.compression_format),
      compression_mode |-> CompressionMode_as_str(w.compression_mode),
      topics_with_message_count |->
        [i \in 1..Len(w.connections) |->
           [ManifestTopic(w.connections[i].topic,
                          w.connections[i].message_type,
                          IF w.connections[i].id \in DOMAIN w.message_counts
                          THEN w.message_counts[w.connections[i].id] ELSE 0)
              EXCEPT !.serialization_format =
                       w.connections[i].serialization_format]]]

\* compress_storage_file: the storage file is read, its compressed bytes are
\* written next to it under the name with the format appended, and the
\* storage file is removed.
Writer_compress_storage_file(w, d, io_fails) ==
  LET storage_file == StorageFileName(w.storage_plugin)
      compressed_file ==
        Append(storage_file, CompressionFormat_as_str(w.compression_format))
  IN IF ~PathExists(d, storage_file) \/ io_fails THEN [res |-> "Io", dir |-> d]
     ELSE [res |-> "Ok",
           dir |-> RemoveFile(
                     ReplaceFile(d, [FileAt(d, storage_file) EXCEPT
                                       !.name = compressed_file,
                                       !.kind = "zstd"]),
                     storage_file)]

\* close.  fault names the one step of the call that the file system fails,
\* if any: "storage_close", "metadata_write", "compress", or "none".
Writer_close(w, d, fault) ==
  IF ~w.is_open THEN Outcome("Ok", w, d)
  ELSE
  LET f == Writer_flush_buffer(w, d)
  IN IF f.res # "Ok" THEN f
     ELSE
     LET bag_info == Writer_generate_metadata(f.writer)
         taken == [f.writer EXCEPT !.storage = None]
         c == IF f.writer.storage = None
              THEN [res |-> "Ok", dir |-> f.dir]
              ELSE StorageWriter_close(f.writer.storage[1], f.dir, w.version,
                                       fault = "storage_close")
     IN IF c.res # "Ok" THEN Outcome(c.res, taken, c.dir)
        ELSE IF fault = "metadata_write" THEN Outcome("Io", taken, c.dir)
        ELSE
        LET d1 == [c.dir EXCEPT !.manifest = Some(bag_info)]
            z == IF w.compression_mode = "file"
                 THEN Writer_compress_storage_file(taken, d1,
                                                   fault = "compress")
                 ELSE [res |-> "Ok", dir |-> d1]
        IN IF z.res # "Ok" THEN Outcome(z.res, taken, z.dir)
           ELSE Outcome("Ok", [taken EXCEPT !.is_open = FALSE], z.dir)

\* ------------------------------------------------------ the reader's calls
\* Reader::new on the bag directory.
ReaderNew ==
  /\ ~reader.made
  /\ LET r == Reader_new(dir)
     IN /\ reader' = r.reader
        /\ ret' = [op |-> "Reader::new", res |-> r.res]
  /\ UNCHANGED <<writer, dir, written, yielded, twin, cdr>>

TopicOrders == {<<"/a", "/b">>, <<"/b", "/a">>}

\* Reader::open.
ReaderOpen ==
  /\ reader.made
  /\ \E order \in TopicOrders :
       LET r == Reader_open(reader, dir, order)
       IN /\ reader' = r.reader
          /\ ret' = [op |-> "Reader::open", res |-> r.res]
  /\ yielded' = NothingYielded
  /\ UNCHANGED <<writer, dir, written, twin, cdr>>

\* The connection lists a caller passes as a filter: none, the empty list,
\* or the first of the reader's connections.
ConnectionFilters ==
  {None, Some(<<>>)} \cup
  {Some(<<reader.connections[i]>>) : i \in DOMAIN reader.connections \cap {1}}

\* Reader::messages_filtered(connections, start, stop), the iterator drained.
\* The call takes the reader by shared reference and changes nothing, so a
\* second call from the same reader state adds nothing: one call is followed
\* here per open or close.
ReaderMessagesFiltered ==
  /\ reader.made
  /\ yielded = NothingYielded
  /\ \E connections \in ConnectionFilters, start, stop \in FilterBounds :
       LET r == Reader_messages_filtered(reader, dir, connections, start, stop)
       IN /\ yielded' = [connections |-> connections, start |-> start,
                         stop |-> stop, res |-> r.res, items |-> r.items]
          /\ ret' = [op |-> "Reader::messages_filtered", res |-> r.res]
  /\ UNCHANGED <<writer, dir, reader, written, twin, cdr>>

\* Reader::close.
ReaderClose ==
  /\ reader.made
  /\ LET r == Reader_close(reader)
     IN /\ reader' = r.reader
        /\ ret' = [op |-> "Reader::close", res |-> r.res]
  /\ yielded' = NothingYielded
  /\ UNCHANGED <<writer, dir, written, twin, cdr>>

\* Reader::messages, the iterator drained.
ReaderMessages ==
  /\ reader.made
  /\ yielded = NothingYielded
  /\ LET r == Reader_messages(reader, dir)
     IN /\ yielded' = [connections |-> None, start |-> None, stop |-> None,
                       res |-> r.res, items |-> r.items]
        /\ ret' = [op |-> "Reader::messages", res |-> r.res]
  /\ UNCHANGED <<writer, dir, reader, written, twin, cdr>>

\* ------------------------------------------------------ the writer's calls
\* A call is made on a writer that exists, on a thread that has not
\* panicked, and before a reader is made on the bag.
WriterCallable ==
  /\ writer.made
  /\ ret.res # "panic"
  /\ twin.res # "panic"
  /\ ~reader.made

\* The state after a call that returned o on the writer and ot on the twin.
Returned(op, o, ot) ==
  /\ writer' = o.writer
  /\ dir' = o.dir
  /\ ret' = [op |-> op, res |-> o.res]
  /\ twin' = IF twin.writer.made
             THEN [writer |-> ot.writer, dir |-> ot.dir, res |-> ot.res]
             ELSE twin
  /\ UNCHANGED <<reader, yielded, cdr>>

\* The writer is configured before its bag directory is made; a configuring
\* call is followed as well on the open writer, which rejects it.
Configurable == ~dir.exists \/ writer.is_open

CompressionChoices ==
  {<<"none", "none">>, <<"message", "zstd">>, <<"file", "zstd">>}

WriterSetCompression ==
  /\ WriterCallable
  /\ Configurable
  /\ \E c \in CompressionChoices :
       Returned("set_compression",
                Writer_set_compression(writer, dir, c[1], c[2]),
                Writer_set_compression(twin.writer, twin.dir, c[1], c[2]))
  /\ UNCHANGED written

\* buffer_size_mb and batch_threshold: a flush at every message, and at every
\* second message.
BufferChoices == {<<10, 1>>, <<10, 2>>}

WriterConfigureBuffer ==
  /\ WriterCallable
  /\ Configurable
  /\ \E b \in BufferChoices :
       Returned("configure_buffer",
                Writer_configure_buffer(writer, dir, b[1], b[2]),
                Writer_configure_buffer(twin.writer, twin.dir, b[1], b[2]))
  /\ UNCHANGED written

\* open, on a writer whose close has not written the manifest yet.
WriterOpen ==
  /\ WriterCallable
  /\ dir.manifest = None
  /\ Returned("open", Writer_open(writer, dir),
              Writer_open(twin.writer, twin.dir))
  /\ UNCHANGED written

TopicChoices == {<<"/a", "T">>, <<"/b", "U">>}

WriterAddConnection ==
  /\ WriterCallable
  /\ Len(writer.connections) < MaxConns
  /\ \E c \in TopicChoices :
       Returned("add_connection",
                Writer_add_connection(writer, dir, c[1], c[2], None),
                Writer_add_connection(twin.writer, twin.dir, c[1], c[2], None))
  /\ UNCHANGED written

\* The connection handles a caller holds: the ones add_connection returned,
\* and one that this writer did not return (a connection of another bag),
\* with an id this writer never gave out.
ForeignHandles == {Connection(MaxConns + 5, "/a", "T", 0, "cdr")}
Handles == Range(writer.connections) \cup ForeignHandles

\* write is handed, besides, a handle with the first id and a topic that
\* this writer never registered.
StaleHandles == {Connection(1, "/x", "T", 0, "cdr")}

\* The timestamp and the payload of a message handed to the writer.
MessageChoices == {<<MaxTs, <<1>>>>, <<0, <<2, 3>>>>}

\* The messages handed to the open writer so far: at most MaxMsgs are.
Handed(w) == MapValuesSum(w.message_counts)

Accepted(o, connection, timestamp, data) ==
  IF o.res = "Ok"
  THEN Append(written, [topic |-> connection.topic, timestamp |-> timestamp,
                        data |-> data])
  ELSE written

WriterWrite ==
  /\ WriterCallable
  /\ Handed(writer) < MaxMsgs \/ ~writer.is_open
  /\ \E connection \in Handles \cup StaleHandles, m \in MessageChoices :
       LET o == Writer_write(writer, dir, connection, m[1], m[2])
       IN /\ Returned("write", o,
                      Writer_write(twin.writer, twin.dir, connection,
                                   m[1], m[2]))
          /\ written' = Accepted(o, connection, m[1], m[2])

WriterFlushBuffer ==
  /\ WriterCallable
  /\ Returned("flush_buffer", Writer_flush_buffer(writer, dir),
              Writer_flush_buffer(twin.writer, twin.dir))
  /\ UNCHANGED written

WriterWriteRawMessage ==
  /\ WriterCallable
  /\ Handed(writer) < MaxMsgs \/ ~writer.is_open
  /\ \E connection \in Handles, m \in MessageChoices :
       LET o == Writer_write_raw_message(writer, dir, connection, m[1], m[2])
       IN /\ Returned("write_raw_message", o,
                      Writer_write_raw_message(twin.writer, twin.dir,
                                               connection, m[1], m[2]))
          /\ written' = Accepted(o, connection, m[1], m[2])

\* The batches handed to write_raw_messages_batch: the empty one, one message
\* on any handle, and two messages of descending timestamps, the first on
\* the first registered connection.
BatchMessage(connection, m) == BufferedMessage(connection, m[1], m[2])
BatchChoices ==
  {<<>>}
  \cup {<<BatchMessage(h, <<1, <<1>>>>)>> : h \in Handles}
  \cup {<<BatchMessage(writer.connections[i], <<MaxTs, <<1>>>>),
          BatchMessage(g, <<0, <<2, 3>>>>)>> :
          i \in DOMAIN writer.connections \cap {1},
          g \in ForeignHandles \cup {writer.connections[j] :
                                       j \in DOMAIN writer.connections \cap {1}}}

WriterWriteRawMessagesBatch ==
  /\ WriterCallable
  /\ \E messages \in BatchChoices :
       /\ Handed(writer) + Len(messages) <= MaxMsgs \/ ~writer.is_open
       /\ LET o == Writer_write_raw_messages_batch(writer, dir, messages)
          IN /\ Returned("write_raw_messages_batch", o,
                         Writer_write_raw_messages_batch(twin.writer, twin.dir,
                                                         messages))
             /\ written' =
                  IF o.res = "Ok"
                  THEN written \o
                       [i \in 1..Len(messages) |->
                          [topic |-> messages[i].connection.topic,
                           timestamp |-> messages[i].timestamp,
                           data |-> messages[i].data]]
                  ELSE written

\* close, with every step of it succeeding or the write of the manifest
\* failing.
Faults == {"none", "metadata_write"}

WriterClose ==
  /\ WriterCallable
  /\ \E fault \in Faults :
       Returned("close", Writer_close(writer, dir, fault),
                Writer_close(twin.writer, twin.dir, fault))
  /\ UNCHANGED written

\* A reader is made on the bag once the writer's close has returned Ok.
ReadBack ==
  /\ writer.made
  /\ ret = [op |-> "close", res |-> "Ok"]
  /\ ReaderNew

\* --------------------------------- specification: every call of the writer
VERSION_LATEST == 9
StoragePlugins == {"sqlite3", "mcap"}

Init ==
  /\ \E storage_plugin \in StoragePlugins :
       writer = Writer_new(VERSION_LATEST, storage_plugin)
  /\ dir = NoDir
  /\ reader = NoReader
  /\ ret = [op |-> "new", res |-> "Ok"]
  /\ written = <<>>
  /\ yielded = NothingYielded
  /\ twin = NoTwin
  /\ cdr = NoCdr(<<>>)

Next ==
  \/ WriterSetCompression
  \/ WriterConfigureBuffer
  \/ WriterOpen
  \/ WriterAddConnection
  \/ WriterWrite
  \/ WriterFlushBuffer
  \/ WriterWriteRawMessage
  \/ WriterWriteRawMessagesBatch
  \/ WriterClose

Spec == Init /\ [][Next]_vars

\* ------------------ specification: a series of messages, buffered in small
\* One megabyte of buffer and a threshold of one, two or three messages.
SmallBufferChoices == {<<1, 1>>, <<1, 2>>, <<1, 3>>}

WriterConfigureSmallBuffer ==
  /\ WriterCallable
  /\ Configurable
  /\ \E b \in SmallBufferChoices :
       Returned("configure_buffer",
                Writer_configure_buffer(writer, dir, b[1], b[2]),
                Writer_configure_buffer(twin.writer, twin.dir, b[1], b[2]))
  /\ UNCHANGED written

\* write and write_raw_message, until MaxSeries messages were handed over.
WriterWriteSeries ==
  /\ WriterCallable
  /\ Handed(writer) < MaxSeries
  /\ \E connection \in Handles, m \in MessageChoices :
       LET o == Writer_write(writer, dir, connection, m[1], m[2])
       IN /\ Returned("write", o,
                      Writer_write(twin.writer, twin.dir, connection,
                                   m[1], m[2]))
          /\ written' = Accepted(o, connection, m[1], m[2])

WriterWriteRawSeries ==
  /\ WriterCallable
  /\ Handed(writer) < MaxSeries
  /\ \E connection \in Handles, m \in MessageChoices :
       LET o == Writer_write_raw_message(writer, dir, connection, m[1], m[2])
       IN /\ Returned("write_raw_message", o,
                      Writer_write_raw_message(twin.writer, twin.dir,
                                               connection, m[1], m[2]))
          /\ written' = Accepted(o, connection, m[1], m[2])

NextBuffer ==
  \/ WriterConfigureSmallBuffer
  \/ WriterOpen
  \/ WriterAddConnection
  \/ WriterWriteSeries
  \/ WriterWriteRawSeries
  \/ WriterClose

SpecBuffer == Init /\ [][NextBuffer]_vars

\* ------------- specification: add_connection and write calls, read back
NextWrite ==
  \/ WriterSetCompression
  \/ WriterConfigureBuffer
  \/ WriterOpen
  \/ WriterAddConnection
  \/ WriterWrite
  \/ WriterClose
  \/ ReadBack
  \/ ReaderOpen
  \/ ReaderMessages
  \/ ReaderClose

SpecWrite == Init /\ [][NextWrite]_vars

\* ------ specification: the same calls on a writer of each backend, read back
InitPair ==
  /\ writer = Writer_new(VERSION_LATEST, "sqlite3")
  /\ dir = NoDir
  /\ reader = NoReader
  /\ ret = [op |-> "new", res |-> "Ok"]
  /\ written = <<>>
  /\ yielded = NothingYielded
  /\ twin = [writer |-> Writer_new(VERSION_LATEST, "mcap"), dir |-> NoDir,
             res |-> "Ok"]
  /\ cdr = NoCdr(<<>>)

SpecPair == InitPair /\ [][NextWrite]_vars

\* Reader::new, open and messages on the directory d, the iterator drained.
ReadBackOf(d, order) ==
  LET n == Reader_new(d)
  IN IF n.res # "Ok" THEN [res |-> n.res, items |-> <<>>]
     ELSE LET o == Reader_open(n.reader, d, order)
          IN IF o.res # "Ok" THEN [res |-> o.res, items |-> <<>>]
             ELSE Reader_messages(o.reader, d)

\* ------------------- specification: a writer that is opened again after close
\* open, on a writer whose close has written the manifest.
WriterReopen ==
  /\ WriterCallable
  /\ dir.manifest # None
  /\ Returned("open", Writer_open(writer, dir),
              Writer_open(twin.writer, twin.dir))
  /\ UNCHANGED written

NextReopen ==
  \/ WriterSetCompression
  \/ WriterOpen
  \/ WriterReopen
  \/ WriterAddConnection
  \/ WriterWrite
  \/ WriterClose

SpecReopen == Init /\ [][NextReopen]_vars

\* ------------------------------------ specification: a reader on any bag
InitRead ==
  /\ writer = NoWriter
  /\ \E sid \in {"sqlite3", "mcap"}, n \in 1..MaxFiles, table \in TopicTables,
        topics \in ManifestTopicLists :
       \E stored \in StoredSeqs(n) :
         dir = GivenBag(sid, n, table, stored, topics)
  /\ reader = NoReader
  /\ ret = [op |-> "none", res |-> "Ok"]
  /\ written = <<>>
  /\ yielded = NothingYielded
  /\ twin = NoTwin
  /\ cdr = NoCdr(<<>>)

NextRead ==
  \/ ReaderNew
  \/ ReaderOpen
  \/ ReaderMessages
  \/ ReaderMessagesFiltered
  \/ ReaderClose

SpecRead == InitRead /\ [][NextRead]_vars

\* ---------------- specification: batches of raw messages, one after another
\* write_raw_messages_batch, until MaxSeries messages were handed over.
WriterWriteRawBatchSeries ==
  /\ WriterCallable
  /\ \E messages \in BatchChoices :
       /\ Handed(writer) + Len(messages) <= MaxSeries
       /\ LET o == Writer_write_raw_messages_batch(writer, dir, messages)
          IN /\ Returned("write_raw_messages_batch", o,
                         Writer_write_raw_messages_batch(twin.writer, twin.dir,
                                                         messages))
             /\ written' =
                  IF o.res = "Ok"
                  THEN written \o
                       [i \in 1..Len(messages) |->
                          [topic |-> messages[i].connection.topic,
                           timestamp |-> messages[i].timestamp,
                           data |-> messages[i].data]]
                  ELSE written

NextBatch ==
  \/ WriterOpen
  \/ WriterAddConnection
  \/ WriterWriteRawBatchSeries
  \/ WriterFlushBuffer
  \/ WriterClose

SpecBatch == Init /\ [][NextBatch]_vars

\* --------------- specification: connections of one topic and of two types
TypedTopicChoices == {<<"/a", "T">>, <<"/a", "U">>}

WriterAddTypedConnection ==
  /\ WriterCallable
  /\ Len(writer.connections) < MaxConns
  /\ \E c \in TypedTopicChoices :
       Returned("add_connection",
                Writer_add_connection(writer, dir, c[1], c[2], None),
                Writer_add_connection(twin.writer, twin.dir, c[1], c[2], None))
  /\ UNCHANGED written

NextTypes ==
  \/ WriterOpen
  \/ WriterAddTypedConnection
  \/ WriterWrite
  \/ WriterFlushBuffer
  \/ WriterClose

SpecTypes == Init /\ [][NextTypes]_vars

\* ------- specification: writers of any version, connections of any format
\* The version argument of Writer::new, None standing for VERSION_LATEST: the
\* latest version, the one before it and the one after it.
VersionChoices == {VERSION_LATEST - 1, VERSION_LATEST, VERSION_LATEST + 1}

\* The serialization_format argument of add_connection.
FormatChoices == {None, Some("cdr"), Some("json")}

WriterAddFormattedConnection ==
  /\ WriterCallable
  /\ Len(writer.connections) < MaxConns
  /\ \E c \in TopicChoices, serialization_format \in FormatChoices :
       Returned("add_connection",
                Writer_add_connection(writer, dir, c[1], c[2],
                                      serialization_format),
                Writer_add_connection(twin.writer, twin.dir, c[1], c[2],
                                      serialization_format))
  /\ UNCHANGED written

InitManifest ==
  /\ \E version \in VersionChoices, storage_plugin \in StoragePlugins :
       writer = Writer_new(version, storage_plugin)
  /\ dir = NoDir
  /\ reader = NoReader
  /\ ret = [op |-> "new", res |-> "Ok"]
  /\ written = <<>>
  /\ yielded = NothingYielded
  /\ twin = NoTwin
  /\ cdr = NoCdr(<<>>)

NextManifest ==
  \/ WriterSetCompression
  \/ WriterOpen
  \/ WriterAddFormattedConnection
  \/ WriterClose
  \/ ReadBack

SpecManifest == InitManifest /\ [][NextManifest]_vars

\* --------------------- specification: close, any one of its steps failing
\* The steps of close that the file system can fail: the close of the
\* storage, the write of the manifest, the compression of the storage file
\* (which fails in every call when the crate is built without compression).
CloseFaults == {"none", "storage_close", "metadata_write", "compress"}

WriterCloseFaulty ==
  /\ WriterCallable
  /\ \E fault \in CloseFaults :
       Returned("close", Writer_close(writer, dir, fault),
                Writer_close(twin.writer, twin.dir, fault))
  /\ UNCHANGED written

NextClose ==
  \/ WriterSetCompression
  \/ WriterOpen
  \/ WriterAddConnection
  \/ WriterWrite
  \/ WriterCloseFaulty

SpecClose == Init /\ [][NextClose]_vars

\* ------------------- specification: reads of a deserializer on a buffer
\* The buffers handed to CdrDeserializer::new: the header, little-endian
\* but for one, and after it
\*   a 4-byte integer, 4 bytes of zero and an 8-byte value;
\*   the string Hello with its NUL, and without it;
\*   an empty string and one more byte;
\*   a string of one byte that no UTF-8 text holds, and its NUL;
\*   a string whose length field exceeds the bytes that follow;
\*   big-endian, the string AB with its NUL and two more bytes;
\*   five bytes, so that the buffer ends one byte after an aligned offset;
\* and a header with the endianness flag 2, and a buffer of three bytes.
CdrBuffers ==
  {<<0, 1, 0, 0, 42, 0, 0, 0, 0, 0, 0, 0, 0, 0, 0, 0, 0, 0, 69, 64>>,
   <<0, 1, 0, 0, 6, 0, 0, 0, 72, 101, 108, 108, 111, 0>>,
   <<0, 1, 0, 0, 5, 0, 0, 0, 72, 101, 108, 108, 111>>,
   <<0, 1, 0, 0, 0, 0, 0, 0, 7>>,
   <<0, 1, 0, 0, 2, 0, 0, 0, 255, 0>>,
   <<0, 1, 0, 0, 9, 0, 0, 0, 72, 0>>,
   <<0, 0, 0, 0, 0, 0, 0, 3, 65, 66, 0, 1, 2>>,
   <<0, 1, 0, 0, 1, 2, 3, 4, 5>>,
   <<0, 2, 0, 0, 1, 0, 0, 0>>,
   <<0, 1, 0>>}

CdrNew ==
  /\ ~cdr.made
  /\ cdr.op = "none"
  /\ LET r == CdrDeserializer_new(cdr.data)
     IN cdr' = IF r.res = "Ok"
               THEN [made |-> TRUE, data |-> r.de.data, pos |-> r.de.pos,
                     endianness |-> r.de.endianness, op |-> "new",
                     before |-> 0, res |-> "Ok", value |-> <<>>]
               ELSE [cdr EXCEPT !.op = "new", !.res = r.res]
  /\ UNCHANGED <<writer, dir, reader, ret, written, yielded, twin>>

ReadOps ==
  {"read_i8", "read_u8", "read_u16", "read_i32", "read_u32", "read_f64",
   "read_f32", "read_bool", "read_string", "read_byte_sequence"}

\* The call of one of the read methods on the deserializer.
CdrDeserializer_call(de, op) ==
  CASE op = "read_i8" -> read_i8(de)
    [] op = "read_u8" -> read_u8(de)
    [] op = "read_u16" -> read_u16(de)
    [] op = "read_i32" -> read_i32(de)
    [] op = "read_u32" -> read_u32(de)
    [] op = "read_f64" -> read_f64(de)
    [] op = "read_f32" -> read_f32(de)
    [] op = "read_bool" -> read_bool(de)
    [] op = "read_string" -> read_string(de)
    [] op = "read_byte_sequence" -> read_byte_sequence(de)

CdrRead ==
  /\ cdr.made
  /\ \E op \in ReadOps :
       LET de == [data |-> cdr.data, pos |-> cdr.pos,
                  endianness |-> cdr.endianness]
           r == CdrDeserializer_call(de, op)
       IN cdr' = [made |-> TRUE, data |-> r.de.data, pos |-> r.de.pos,
                  endianness |-> r.de.endianness, op |-> op,
                  before |-> cdr.pos, res |-> r.res, value |-> r.value]
  /\ UNCHANGED <<writer, dir, reader, ret, written, yielded, twin>>

InitCdr ==
  /\ writer = NoWriter
  /\ dir = NoDir
  /\ reader = NoReader
  /\ ret = [op |-> "none", res |-> "Ok"]
  /\ written = <<>>
  /\ yielded = NothingYielded
  /\ twin = NoTwin
  /\ \E data \in CdrBuffers : cdr = NoCdr(data)

NextCdr == CdrNew \/ CdrRead

SpecCdr == InitCdr /\ [][NextCdr]_vars

\* ------------------------------------------------- claims about a reader
FilterTopics(connections) ==
  {connections[1][i].topic : i \in 1..Len(connections[1])}

C2_FilterRespected ==
  yielded.res = "Ok" =>
    \A i \in 1..Len(yielded.items) :
      /\ (yielded.connections # None /\ yielded.connections[1] # <<>>) =>
           yielded.items[i].topic \in FilterTopics(yielded.connections)
      /\ yielded.start # None => yielded.start[1] <= yielded.items[i].timestamp
      /\ yielded.stop # None => yielded.items[i].timestamp < yielded.stop[1]

\* C3: messages_filtered with an empty connection list yields the sequence
\* that the same call with no connection list yields.
C3_EmptyFilterIsNoFilter ==
  (yielded.res = "Ok" /\ yielded.connections = Some(<<>>)) =>
    yielded.items =
      Reader_messages_filtered(reader, dir, None, yielded.start,
                               yielded.stop).items

\* C8: on an opened reader the message counts of connections() add up to
\* message_count().
C8_CountsAddUp ==
  reader.is_open =>
    SumSeq([i \in 1..Len(reader.connections) |->
              reader.connections[i].message_count])
      = Reader_message_count(reader)

\* ------------------------------------------------- claims about a writer
\* What a message is to a caller: its topic, its timestamp and its payload.
Triple(m) == [topic |-> m.topic, timestamp |-> m.timestamp, data |-> m.data]
Triples(s) == [i \in 1..Len(s) |-> Triple(s[i])]
Occurrences(s, x) == Cardinality({i \in 1..Len(s) : s[i] = x})
SameMessages(s, t) ==
  /\ Len(s) = Len(t)
  /\ \A x \in Range(s) \cup Range(t) : Occurrences(s, x) = Occurrences(t, x)
Ascending(s) ==
  \A i \in 1..(Len(s) - 1) : s[i].timestamp <= s[i + 1].timestamp

\* The writer's bag is finished: close returned Ok and wrote the manifest,
\* and a reader was made on the bag and has drained messages().
ReadBackDone ==
  /\ reader.made
  /\ dir.manifest # None
  /\ yielded.res # "none"

\* C4: after any sequence of add_connection and write calls on a writer of
\* the relational backend without compression, followed by close, a reader
\* opened on the bag yields exactly the written messages (same topics,
\* timestamps and payloads) in non-decreasing timestamp order.
C4_WrittenReadBack ==
  (/\ writer.storage_plugin = "sqlite3"
   /\ writer.compression_mode = "none"
   /\ reader.made
   /\ dir.manifest # None)
  => /\ ret.op = "Reader::open" => ret.res = "Ok"
     /\ (reader.is_open /\ yielded.res # "none")
        => /\ yielded.res = "Ok"
           /\ SameMessages(Triples(yielded.items), written)
           /\ Ascending(yielded.items)

C4_Witness ==
  /\ writer.storage_plugin = "sqlite3"
  /\ writer.compression_mode = "none"
  /\ ReadBackDone
  /\ reader.is_open
  /\ Len(written) = 2
  /\ written[1].timestamp > written[2].timestamp
  /\ written[1].topic # written[2].topic
  /\ yielded.res = "Ok"
  /\ Len(yielded.items) = 2

\* C5: with message-level or file-level zstd compression set, the reader
\* opens the bag the writer closed and yields payloads identical to the
\* uncompressed bytes that were written.  Stated for the relational backend.
C5_CompressedReadBack ==
  (/\ writer.storage_plugin = "sqlite3"
   /\ writer.compression_mode \in {"message", "file"}
   /\ writer.compression_format = "zstd"
   /\ reader.made
   /\ dir.manifest # None)
  => /\ ret.op = "Reader::open" => ret.res = "Ok"
     /\ (reader.is_open /\ yielded.res # "none")
        => /\ yielded.res = "Ok"
           /\ SameMessages(Triples(yielded.items), written)

\* C7: in the manifest the writer produces, the sum of the per-topic message
\* counts equals the total message_count.
C7_ManifestCountsAddUp ==
  dir.manifest # None =>
    LET info == dir.manifest[1]
        topics == info.topics_with_message_count
    IN SumSeq([i \in 1..Len(topics) |-> topics[i].message_count])
         = info.message_count

\* C9: the writer is never marked open while it holds no storage backend,
\* the relational backend is never marked open while it holds no database
\* connection, and no call panics.
C9_OpenHoldsStorage ==
  /\ ret.res # "panic"
  /\ writer.is_open => writer.storage # None
  /\ (writer.storage # None /\ writer.storage[1].kind = "sqlite3"
      /\ writer.storage[1].is_open)
     => writer.storage[1].connection # None

\* C10: add_connection, write, write_raw_message and
\* write_raw_messages_batch, called on a writer that is not open, return
\* BagNotOpen and leave the writer and the bag directory as they were.
DataCalls ==
  {"add_connection", "write", "write_raw_message", "write_raw_messages_batch"}

C10_NotOpenRejected ==
  [][(writer.made /\ ~writer.is_open /\ ret'.op \in DataCalls)
     => /\ ret'.res = "BagNotOpen"
        /\ writer' = writer
        /\ dir' = dir
        /\ written' = written]_vars

C10_Witness ==
  /\ writer.made
  /\ ~writer.is_open
  /\ dir.manifest # None
  /\ Len(written) > 0
  /\ ret.op = "write_raw_messages_batch"
  /\ ret.res = "BagNotOpen"

\* C6: bags written through the relational backend and through the
\* chunked-binary backend from the same sequence of calls are both readable
\* by the reader and yield the same messages.
C6_BackendsAgree ==
  (/\ twin.writer.made
   /\ twin.res = "Ok"
   /\ twin.dir.manifest # None
   /\ ReadBackDone
   /\ reader.is_open
   /\ yielded.res = "Ok")
  => \A order \in TopicOrders :
       /\ ReadBackOf(twin.dir, order).res = "Ok"
       /\ SameMessages(Triples(ReadBackOf(twin.dir, order).items),
                       Triples(yielded.items))

\* C11: once close has returned Ok the writer is finalized: no later call to
\* open brings it back to the open state, for either backend and any
\* compression mode.
C11_ClosedStaysClosed ==
  [][(/\ writer.made
      /\ dir.manifest # None
      /\ ~writer.is_open
      /\ ret'.op = "open")
     => ~writer'.is_open]_vars

\* C12: write, write_raw_message and write_raw_messages_batch accept a
\* message only for a connection handle that add_connection returned on this
\* writer; for any other handle nothing is counted and nothing is buffered.
\* So every counted id is a registered id and every buffered message carries
\* a registered connection.
C12_OnlyRegisteredAccepted ==
  writer.made =>
    /\ DOMAIN writer.message_counts
         \subseteq {writer.connections[i].id : i \in DOMAIN writer.connections}
    /\ \A i \in DOMAIN writer.message_buffer :
         writer.message_buffer[i].connection \in Range(writer.connections)

\* C13: no two registered connections share the same (topic, message_type)
\* pair; a second registration of an existing pair returns
\* ConnectionAlreadyExists and adds no connection, no type record and no
\* storage row, and a registration that returns Ok adds one connection.
UniquePairs(connections) ==
  \A i, j \in DOMAIN connections :
    (/\ connections[i].topic = connections[j].topic
     /\ connections[i].message_type = connections[j].message_type) => i = j

C13_UniqueConnections ==
  [][/\ UniquePairs(writer'.connections)
     /\ (ret'.op = "add_connection" /\ ret'.res = "ConnectionAlreadyExists")
        => (writer' = writer /\ dir' = dir)
     /\ (ret'.op = "add_connection" /\ ret'.res = "Ok")
        => Len(writer'.connections) = Len(writer.connections) + 1]_vars

C13_Witness ==
  /\ ret.op = "add_connection"
  /\ ret.res = "ConnectionAlreadyExists"
  /\ Len(writer.connections) = 1
  /\ writer.storage_plugin = "sqlite3"
  /\ Len(FileAt(dir, <<"bag", "db3">>).topics) = 1

\* C14: with batch_threshold >= 1 and buffer_size_limit >= 1, after every
\* write or write_raw_message call that returns Ok the buffer holds fewer
\* than batch_threshold messages and fewer than buffer_size_limit bytes: the
\* call either flushed, because the buffered count had reached the threshold
\* or the buffered bytes the limit, and left the buffer empty, or appended
\* its message to the buffer, below both limits.
BufferedBytes(buffer) == SumSeq([i \in DOMAIN buffer |-> Len(buffer[i].data)])

C14_BufferBelowLimits ==
  [][(/\ ret'.op \in {"write", "write_raw_message"}
      /\ ret'.res = "Ok"
      /\ writer.batch_threshold >= 1
      /\ writer.buffer_size_limit >= 1)
     => /\ Len(writer'.message_buffer) < writer.batch_threshold
        /\ BufferedBytes(writer'.message_buffer) < writer.buffer_size_limit
        /\ \/ /\ writer'.message_buffer = <<>>
              /\ LET m == written'[Len(written')]
                     added == IF /\ ret'.op = "write"
                                 /\ writer.compression_mode = "message"
                                 /\ writer.compression_format = "zstd"
                              THEN Len(ZstdEncode(m.data)) ELSE Len(m.data)
                 IN \/ Len(writer.message_buffer) + 1 >= writer.batch_threshold
                    \/ BufferedBytes(writer.message_buffer) + added
                         >= writer.buffer_size_limit
           \/ /\ Len(writer'.message_buffer) = Len(writer.message_buffer) + 1
              /\ SubSeq(writer'.message_buffer, 1, Len(writer.message_buffer))
                   = writer.message_buffer]_vars

\* The byte limit flushed the buffer below the threshold of messages.
C14_Witness ==
  /\ ret.op \in {"write", "write_raw_message"}
  /\ ret.res = "Ok"
  /\ writer.batch_threshold = 3
  /\ writer.buffer_size_limit = BytesPerMB
  /\ Len(written) = 2
  /\ written[1].data = <<2, 3>>
  /\ written[2].data = <<2, 3>>
  /\ writer.message_buffer = <<>>
  /\ writer.storage_plugin = "sqlite3"
  /\ Len(FileAt(dir, <<"bag", "db3">>).messages) = 2

\* The messages the relational backend has received, in the order of its
\* rows, and the messages of a buffer, as (topic, timestamp, payload).
Received(d) ==
  IF PathExists(d, <<"bag", "db3">>)
  THEN LET file == FileAt(d, <<"bag", "db3">>)
       IN [i \in DOMAIN file.messages |->
             [topic |-> file.topics[file.messages[i].topic_id].name,
              timestamp |-> AsUnsigned(file.messages[i].timestamp),
              data |-> file.messages[i].data]]
  ELSE <<>>
BufferTriples(buffer) ==
  [i \in DOMAIN buffer |-> [topic |-> buffer[i].connection.topic,
                            timestamp |-> buffer[i].timestamp,
                            data |-> buffer[i].data]]
\* What the backend received in the step: the rows the step added.
BatchOfStep == SubSeq(Received(dir'), Len(Received(dir)) + 1,
                      Len(Received(dir')))

\* C15: with batch_threshold k >= 1 and the byte limit never reached, n
\* messages written on any interleaving of topics and then close: the
\* backend receives a batch of exactly k messages at every k-th write and
\* nothing at the other writes, and the n mod k remaining messages at close;
\* the batches, one after the other, are the written sequence in call order,
\* and the buffer is empty after each flush.  The calls are the ones made
\* while the writer holds its backend, every one of them returning Ok.
C15_BatchesOfThreshold ==
  [][LET k == writer'.batch_threshold
         n == Len(written')
         relational == writer'.storage_plugin = "sqlite3"
     IN (/\ k >= 1
         /\ writer.storage # None
         /\ ret'.res = "Ok"
         /\ Handed(writer') = n
         /\ BufferedBytes(written') < writer'.buffer_size_limit)
        => /\ ret'.op \in {"write", "write_raw_message"}
              => /\ relational
                    => /\ Received(dir') = SubSeq(written', 1, k * (n \div k))
                       /\ BatchOfStep = IF n % k = 0
                                        THEN SubSeq(written', n - k + 1, n)
                                        ELSE <<>>
                 /\ BufferTriples(writer'.message_buffer)
                      = SubSeq(written', n - (n % k) + 1, n)
           /\ (ret'.op = "close" /\ writer.is_open)
              => /\ writer'.message_buffer = <<>>
                 /\ relational
                    => /\ Received(dir') = written
                       /\ BatchOfStep = SubSeq(written, n - (n % k) + 1, n)]_vars

\* Three messages on two topics, threshold two: one batch of two during the
\* writes and the third message at close.
C15_Witness ==
  /\ ret = [op |-> "close", res |-> "Ok"]
  /\ writer.storage_plugin = "sqlite3"
  /\ writer.batch_threshold = 2
  /\ Handed(writer) = 3
  /\ Len(written) = 3
  /\ written[1].topic # written[2].topic
  /\ BufferedBytes(written) < writer.buffer_size_limit
  /\ Received(dir) = written

\* C16: write_raw_messages_batch hands every previously buffered message to
\* the backend before any message of its batch, so across any mix of write,
\* write_raw_message and write_raw_messages_batch calls the backend receives
\* the messages in the order of the calls that accepted them: what the
\* backend has received, followed by what the buffer holds, is the sequence
\* of the accepted messages (topics and timestamps; the payloads too when no
\* message compression rewrites them).
Keys(s) == [i \in DOMAIN s |-> [topic |-> s[i].topic,
                                timestamp |-> s[i].timestamp]]

C16_BackendInCallOrder ==
  [][(/\ writer'.storage_plugin = "sqlite3"
      /\ writer'.storage # None
      /\ ret'.res = "Ok")
     => /\ (/\ ret'.op = "write_raw_messages_batch"
            /\ written' # written)
           => /\ writer'.message_buffer = <<>>
              /\ Received(dir') =
                   Received(dir) \o BufferTriples(writer.message_buffer)
                   \o SubSeq(written', Len(written) + 1, Len(written'))
        /\ Handed(writer') = Len(written')
           => LET backend == Received(dir')
                               \o BufferTriples(writer'.message_buffer)
              IN /\ Keys(backend) = Keys(written')
                 /\ writer'.compression_mode # "message"
                    => backend = written']_vars

\* A message was buffered by write or write_raw_message, and a batch of one
\* message was written after it: the backend holds both, in this order.
C16_Witness ==
  /\ ret = [op |-> "write_raw_messages_batch", res |-> "Ok"]
  /\ writer.storage_plugin = "sqlite3"
  /\ writer.storage # None
  /\ writer.batch_threshold = 100
  /\ writer.message_buffer = <<>>
  /\ Len(written) = 2
  /\ written[1].timestamp = MaxTs
  /\ written[2].timestamp = 1
  /\ Received(dir) = written

\* The least and the greatest timestamp of a sequence of messages.
MinStamp(s) == CHOOSE x \in {s[i].timestamp : i \in DOMAIN s} :
                 \A i \in DOMAIN s : x <= s[i].timestamp
MaxStamp(s) == CHOOSE x \in {s[i].timestamp : i \in DOMAIN s} :
                 \A i \in DOMAIN s : x >= s[i].timestamp

\* C17: after at least one message has been written, through write or the
\* raw paths and with timestamps in any order, the manifest built at close
\* has starting time equal to the minimum written timestamp and duration
\* equal to maximum minus minimum, and a reader on the bag reports the
\* maximum written timestamp as end_time; with a single message the duration
\* is 0 and start_time and end_time are its timestamp.
C17_ManifestTimeBounds ==
  (/\ writer.made
   /\ ret = [op |-> "close", res |-> "Ok"]
   /\ dir.manifest # None
   /\ Len(written) >= 1)
  => LET r == Reader_new(dir).reader
     IN /\ dir.manifest[1].starting_time = MinStamp(written)
        /\ dir.manifest[1].duration = MaxStamp(written) - MinStamp(written)
        /\ Reader_start_time(r) = MinStamp(written)
        /\ Reader_end_time(r) = MaxStamp(written)

\* C18: a bag that the writer opens and closes with zero messages has a
\* manifest whose duration is 0 and whose starting time is 0, and a reader
\* on it reports end_time, start_time and duration all 0.
C18_EmptyBagTimesZero ==
  (/\ writer.made
   /\ ret = [op |-> "close", res |-> "Ok"]
   /\ dir.manifest # None
   /\ written = <<>>
   /\ Handed(writer) = 0)
  => LET r == Reader_new(dir).reader
     IN /\ dir.manifest[1].duration = 0
        /\ dir.manifest[1].starting_time = 0
        /\ Reader_end_time(r) = 0
        /\ Reader_start_time(r) = 0
        /\ Reader_duration(r) = 0

\* The number of messages that the storage files of the opened reader hold
\* for a topic: message rows whose topics row names it, or records on it.
HeldInFile(file, topic) ==
  Cardinality({k \in DOMAIN file.messages :
                 /\ file.messages[k].topic_id \in DOMAIN file.topics
                 /\ file.topics[file.messages[k].topic_id].name = topic})
  + Cardinality({k \in DOMAIN file.records : file.records[k].topic = topic})
HeldFor(paths, topic) ==
  SumSeq([i \in DOMAIN paths |-> HeldInFile(FileAt(dir, paths[i]), topic)])

\* C19: after Reader.open, the message_count of every entry of
\* reader.connections() equals the number of messages that the storage files
\* hold for that topic, whatever counts the manifest lists, including
\* manifest topics for which the storage holds no message.
C19_CountsMeasured ==
  (reader.made /\ reader.is_open)
  => \A i \in DOMAIN reader.connections :
       reader.connections[i].message_count
         = HeldFor(reader.storage[1].paths, reader.connections[i].topic)

\* C20: every message yielded by an opened reader carries a connection
\* record equal to an entry of reader.connections() (same id, topic, type
\* and count), and message.topic equals that connection's topic.
C20_YieldedConnectionListed ==
  (reader.made /\ reader.is_open /\ yielded.res = "Ok")
  => \A i \in DOMAIN yielded.items :
       /\ yielded.items[i].connection \in Range(reader.connections)
       /\ yielded.items[i].topic = yielded.items[i].connection.topic

\* C21: after Reader.open on either backend, no two entries of
\* reader.connections() have the same id, including when the storage holds
\* topics that the manifest does not list and when the bag has several
\* storage files.
C21_ReaderIdsUnique ==
  (reader.made /\ reader.is_open)
  => \A i, j \in DOMAIN reader.connections :
       reader.connections[i].id = reader.connections[j].id => i = j

\* C22: after any sequence of successful and failed add_connection calls on
\* an open writer, the i-th registered connection in insertion order
\* (counting from 1) has id i.
C22_IdsInInsertionOrder ==
  writer.made => \A i \in DOMAIN writer.connections :
                   writer.connections[i].id = i

\* The second connection was registered, on the topic that a first call had
\* not taken.
C22_Witness ==
  /\ ret = [op |-> "add_connection", res |-> "Ok"]
  /\ Len(writer.connections) = 2
  /\ writer.connections[1].topic = "/b"
  /\ writer.connections[2].topic = "/a"
  /\ writer.connections[2].id = 2

\* C23: messages() and messages_filtered() return BagNotOpen whenever the
\* reader is not open, before the first open and after close, and close
\* leaves the reader not open.
C23_NotOpenNoMessages ==
  [][/\ (/\ ret'.op \in {"Reader::messages", "Reader::messages_filtered"}
         /\ ~reader.is_open)
        => (ret'.res = "BagNotOpen" /\ yielded'.res = "BagNotOpen"
            /\ yielded'.items = <<>>)
     /\ ret'.op = "Reader::close" => ~reader'.is_open]_vars

\* messages_filtered was called after close: the reader holds connections
\* that only a successful open gives it, and is not open.
C23_Witness ==
  /\ ret = [op |-> "Reader::messages_filtered", res |-> "BagNotOpen"]
  /\ reader.made
  /\ ~reader.is_open
  /\ reader.storage = None
  /\ reader.metadata[1].topics_with_message_count = <<>>
  /\ reader.connections # <<>>

\* C24: close is idempotent on both reader and writer: a close that follows
\* a close returns Ok and changes nothing; in particular the writer does not
\* flush, rewrite the manifest, or recompress the storage file a second time.
C24_CloseIdempotent ==
  [][/\ (ret.op = "close" /\ ret'.op = "close")
        => (ret'.res = "Ok" /\ writer' = writer /\ dir' = dir)
     /\ (ret.op = "Reader::close" /\ ret'.op = "Reader::close")
        => (ret'.res = "Ok" /\ reader' = reader /\ dir' = dir)]_vars

\* C25: calling open on a writer that is already open is an error
\* (BagAlreadyOpen) and does not replace or re-create the storage backend.
C25_OpenTwiceRejected ==
  [][(writer.made /\ writer.is_open /\ ret'.op = "open")
     => /\ ret'.res = "BagAlreadyOpen"
        /\ writer'.storage = writer.storage
        /\ dir' = dir]_vars

\* C26: set_compression and configure_buffer called while the writer is open
\* return BagAlreadyOpen and leave compression mode, compression format,
\* buffer_size_limit and batch_threshold unchanged.
C26_ConfigureOpenRejected ==
  [][(/\ writer.made
      /\ writer.is_open
      /\ ret'.op \in {"set_compression", "configure_buffer"})
     => /\ ret'.res = "BagAlreadyOpen"
        /\ writer'.compression_mode = writer.compression_mode
        /\ writer'.compression_format = writer.compression_format
        /\ writer'.buffer_size_limit = writer.buffer_size_limit
        /\ writer'.batch_threshold = writer.batch_threshold
        /\ writer' = writer]_vars

\* configure_buffer was refused on the open writer, which keeps the default
\* threshold that none of the offered arguments has.
C26_Witness ==
  /\ ret = [op |-> "configure_buffer", res |-> "BagAlreadyOpen"]
  /\ writer.is_open
  /\ writer.compression_mode = "message"
  /\ writer.batch_threshold = 100
  /\ writer.buffer_size_limit = 10 * BytesPerMB

\* ------------------------------------------- claims about the CDR decoder
\* The cursor a read of the given width starts from once it is aligned.
Start(width) == align(cdr.before, width)

\* C27: when a 4-byte integer is read right after the 4-byte header and an
\* 8-byte value is read next, both with success, the 8-byte value is made of
\* the bytes at offsets 12..20 (4 bytes of padding follow the integer) and
\* the cursor is left at 20.
C27_PaddingAfterInteger ==
  [][(/\ cdr.made /\ cdr.op = "read_i32" /\ cdr.res = "Ok"
      /\ cdr.before = 4 /\ cdr.pos = 8
      /\ cdr'.op = "read_f64" /\ cdr'.res = "Ok")
     => /\ cdr'.pos = 20
        /\ cdr'.value = MsbFirst(SubSeq(cdr.data, 13, 20), cdr.endianness)]_vars

\* The primitive reads, the type each returns and its width in bytes.
PrimitiveOps ==
  {"read_i8", "read_u8", "read_bool", "read_u16", "read_i32", "read_u32",
   "read_f32", "read_f64"}
TypeOf(op) ==
  CASE op = "read_i8" -> "i8"
    [] op \in {"read_u8", "read_bool"} -> "u8"
    [] op = "read_u16" -> "u16"
    [] op = "read_i32" -> "i32"
    [] op = "read_u32" -> "u32"
    [] op = "read_f32" -> "f32"
    [] op = "read_f64" -> "f64"
WidthOf(op) ==
  CASE op \in {"read_i8", "read_u8", "read_bool"} -> 1
    [] op = "read_u16" -> 2
    [] op \in {"read_i32", "read_u32", "read_f32"} -> 4
    [] op = "read_f64" -> 8

LengthField ==
  Unsigned(MsbFirst(SubSeq(cdr.data, Start(4) + 1, Start(4) + 4),
                    cdr.endianness))
Selected ==
  LET first == Start(4) + 4
      L == LengthField
  IN IF cdr.data[first + L] = 0
     THEN SubSeq(cdr.data, first + 1, first + L - 1)
     ELSE SubSeq(cdr.data, first + 1, first + L)

\* C29 (amended): read_string with a length field L, read at the cursor
\* once aligned to 4.  For L = 0 it returns the empty string and consumes
\* exactly the 4 length bytes.  For L > 0 that fits in the buffer it consumes
\* 4 + L bytes; when the bytes it selects (the first L - 1 when the L-th is
\* NUL, else all L) are well-formed UTF-8 it returns them, and when they are
\* not it returns an error.
C29_StringRead ==
  (cdr.made /\ cdr.op = "read_string" /\ Start(4) + 4 <= Len(cdr.data))
  => /\ LengthField = 0
        => (cdr.res = "Ok" /\ cdr.value = <<>> /\ cdr.pos = Start(4) + 4)
     /\ (LengthField > 0 /\ Start(4) + 4 + LengthField <= Len(cdr.data))
        => /\ cdr.pos = Start(4) + 4 + LengthField
           /\ IsUtf8(Selected) => (cdr.res = "Ok" /\ cdr.value = Selected)
           /\ ~IsUtf8(Selected) => (cdr.res = "Generic" /\ cdr.value = <<>>)

\* The header, 06 00 00 00, Hello and NUL: the string Hello is returned and
\* the cursor is at 14.
C29_Witness ==
  /\ cdr.made
  /\ cdr.data = <<0, 1, 0, 0, 6, 0, 0, 0, 72, 101, 108, 108, 111, 0>>
  /\ cdr.op = "read_string"
  /\ cdr.before = 4
  /\ cdr.res = "Ok"
  /\ cdr.value = <<72, 101, 108, 108, 111>>
  /\ cdr.pos = 14

\* C29 as stated: for L = 0 the empty string and 4 bytes consumed; for every
\* L > 0 that fits in the buffer 4 + L bytes consumed and the selected bytes
\* returned.
C29_StringReadAlways ==
  (cdr.made /\ cdr.op = "read_string" /\ Start(4) + 4 <= Len(cdr.data))
  => /\ LengthField = 0
        => (cdr.res = "Ok" /\ cdr.value = <<>> /\ cdr.pos = Start(4) + 4)
     /\ (LengthField > 0 /\ Start(4) + 4 + LengthField <= Len(cdr.data))
        => /\ cdr.pos = Start(4) + 4 + LengthField
           /\ cdr.res = "Ok"
           /\ cdr.value = Selected

\* A failure of the last call that is not the one of a string whose bytes
\* were all there and are not UTF-8: the buffer ended before the bytes of a
\* primitive, of a length field, of a string or of a byte sequence, or the
\* header could not be parsed.
FailedForBytesOrFlag ==
  /\ cdr.op # "none"
  /\ cdr.res # "Ok"
  /\ cdr.op = "read_string" => cdr.pos <= Start(4) + 4

\* C30: every failure caused by the buffer ending before enough bytes are
\* available (primitive after alignment, string, byte sequence) or by an
\* endianness flag other than 0 or 1 is an error of the kind
\* CdrDeserialization, the one that carries the offset and the buffer length.
C30_FailuresCarryOffset ==
  FailedForBytesOrFlag => cdr.res = "CdrDeserialization"

\* ------------------------------------- claims about failures of the writer
\* C31: when write or write_raw_message returns an error, the message is not
\* accepted: the per-connection counts, the least and the greatest timestamp,
\* the buffer and its size are the ones before the call.
C31_FailedWriteNotAccepted ==
  [][(/\ ret'.op \in {"write", "write_raw_message"}
      /\ ret'.res \notin {"Ok", "panic"})
     => /\ writer'.message_counts = writer.message_counts
        /\ writer'.min_timestamp = writer.min_timestamp
        /\ writer'.max_timestamp = writer.max_timestamp
        /\ writer'.message_buffer = writer.message_buffer
        /\ writer'.current_buffer_size = writer.current_buffer_size]_vars

\* The rows of the messages table of the relational storage file.
StoredMessages(d) ==
  IF PathExists(d, <<"bag", "db3">>)
  THEN FileAt(d, <<"bag", "db3">>).messages
  ELSE <<>>

\* A step in which the write_batch of the relational backend failed part-way:
\* the writer holds its backend, whose database connection the step dropped.
BatchFailed ==
  /\ writer.storage # None
  /\ writer.storage[1].kind = "sqlite3"
  /\ writer.storage[1].connection # None
  /\ writer'.storage # None
  /\ writer'.storage[1].connection = None
  /\ ret'.res = "ConnectionNotFound"

\* C32: a write_batch of the relational backend that fails part-way, on a
\* message whose topic was never registered, stores none of the messages of
\* its batch, and the messages of every earlier batch remain stored: the rows
\* of the messages table are the ones before the call.
C32_FailedBatchStoresNothing ==
  [][BatchFailed => StoredMessages(dir') = StoredMessages(dir)]_vars

\* One message of an earlier batch is stored, and a batch of two messages,
\* the first on the registered connection and the second on a topic that was
\* never registered, has failed.
C32_Witness ==
  /\ ret = [op |-> "write_raw_messages_batch", res |-> "ConnectionNotFound"]
  /\ writer.storage # None
  /\ writer.storage[1].kind = "sqlite3"
  /\ writer.storage[1].connection = None
  /\ Len(writer.connections) = 1
  /\ writer.message_counts = (1 :> 2) @@ (MaxConns + 5 :> 1)
  /\ Len(StoredMessages(dir)) = 1

\* C33: when two registered connections share a topic and differ in message
\* type, every message is stored under the topic row of the connection it
\* was written with: in a flush of the buffer to the relational backend, the
\* row added for a message written on a registered connection refers to the
\* topic row that has the topic and the type of that connection.
C33_StoredUnderOwnType ==
  [][(/\ writer.storage # None
      /\ writer.storage[1].kind = "sqlite3"
      /\ ret'.op \in {"flush_buffer", "close"}
      /\ ret'.res = "Ok"
      /\ Len(StoredMessages(dir'))
           = Len(StoredMessages(dir)) + Len(writer.message_buffer))
     => \A i \in DOMAIN writer.message_buffer :
          LET m == writer.message_buffer[i]
              row == StoredMessages(dir')[Len(StoredMessages(dir)) + i]
              topic == FileAt(dir', <<"bag", "db3">>).topics[row.topic_id]
          IN m.connection \in Range(writer.connections)
             => /\ topic.name = m.connection.topic
                /\ topic.message_type = m.connection.message_type]_vars

\* ------------------------------ claims about what a reader finds in a bag
\* The message rows of the database files at paths whose topic row exists,
\* as a caller sees a message: the name of the topic row, the timestamp as
\* the unsigned number it was written as, the payload.
StoredInFile(file) ==
  LET Joined(row) == row.topic_id \in 1..Len(file.topics)
      rows == SelectSeq(file.messages, Joined)
  IN [k \in DOMAIN rows |->
        [topic |-> file.topics[rows[k].topic_id].name,
         timestamp |-> AsUnsigned(rows[k].timestamp),
         data |-> rows[k].data]]
StoredIn(paths) ==
  Flatten([i \in DOMAIN paths |-> StoredInFile(FileAt(dir, paths[i]))])

\* The reader is open on a bag of the relational backend and an iterator
\* over its messages was drained.
DrainedRelational ==
  /\ reader.made
  /\ reader.is_open
  /\ reader.storage[1].kind = "sqlite3"
  /\ yielded.res = "Ok"

\* C34: for every unsigned timestamp, the values of the upper half of the
\* range included, a message stored by the relational backend on a topic
\* that the manifest lists is read back with its timestamp, and
\* messages_filtered(start, stop) yields it exactly when
\* start <= timestamp < stop, compared as unsigned numbers.
C34_UnsignedTimestamps ==
  (DrainedRelational /\ yielded.connections = None)
  => LET stored == StoredIn(reader.storage[1].paths)
         listed == {reader.storage[1].topic_connections[i].topic :
                      i \in DOMAIN reader.storage[1].topic_connections}
     IN \A x \in Range(stored) :
          x.topic \in listed
          => Occurrences(Triples(yielded.items), x)
               = IF /\ yielded.start = None \/ yielded.start[1] <= x.timestamp
                    /\ yielded.stop = None \/ x.timestamp < yielded.stop[1]
                 THEN Occurrences(stored, x)
                 ELSE 0

\* C35: for an opened reader on the relational backend, the number of
\* messages that the unfiltered messages() yields for each topic equals the
\* message_count of that topic in reader.connections(), added up over the
\* connections of the topic, also when the storage holds topics that the
\* manifest does not list.
C35_YieldedAsCounted ==
  (/\ DrainedRelational
   /\ yielded.connections = None
   /\ yielded.start = None
   /\ yielded.stop = None)
  => \A topic \in {reader.connections[i].topic : i \in DOMAIN reader.connections} :
       Cardinality({k \in DOMAIN yielded.items : yielded.items[k].topic = topic})
         = SumSeq([i \in DOMAIN reader.connections |->
                     IF reader.connections[i].topic = topic
                     THEN reader.connections[i].message_count ELSE 0])

\* ------------------------------ claims about the manifest a writer emits
\* C36: every manifest the writer emits passes the reader's validation: its
\* version is at most 9 and the serialization format of every topic is
\* "cdr", whatever version Writer::new was given and whatever
\* serialization_format add_connection was given.
C36_EmittedManifestValid ==
  (writer.made /\ dir.manifest # None)
  => /\ dir.manifest[1].version <= 9
     /\ \A i \in DOMAIN dir.manifest[1].topics_with_message_count :
          dir.manifest[1].topics_with_message_count[i].serialization_format
            = "cdr"
     /\ BagMetadata_validate(dir.manifest[1]) = "Ok"

\* C37: whenever close has returned, Ok or an error, and metadata.yaml
\* exists in the bag directory, every relative file path listed in it names
\* a file that exists; with file-mode compression the listed file is the
\* compressed file and the uncompressed storage file no longer exists.
C37_ListedFilesExist ==
  (writer.made /\ ret.op = "close" /\ ret.res # "panic" /\ dir.manifest # None)
  => /\ \A i \in DOMAIN dir.manifest[1].relative_file_paths :
          PathExists(dir, dir.manifest[1].relative_file_paths[i])
     /\ writer.compression_mode = "file"
        => /\ dir.manifest[1].relative_file_paths
                = <<Append(StorageFileName(writer.storage_plugin),
                           CompressionFormat_as_str(writer.compression_format))>>
           /\ ~PathExists(dir, StorageFileName(writer.storage_plugin))

\* ------------------------------- claims about the cursor of the CDR decoder
\* C38: after any sequence of reads of a deserializer, successful or failed,
\* position() <= data_len(): the cursor is not past the end of the buffer.
C38_CursorWithinBuffer ==
  cdr.made => cdr.pos <= Len(cdr.data)

====
